---- MODULE Spec2Model ----
(***************************************************************************)
(* Model of the certificate data-assembly engine                           *)
(* (services/certificate_engine.py, class CertificateEngine) and of the    *)
(* HTTP handler that drives it (main.py, generate_certificate_v2).         *)
(*                                                                         *)
(* Python strings that the code inspects (strip, lower, regular            *)
(* expressions, int/float parsing, formatting) are sequences of one-       *)
(* character strings, so that every conversion is computed.  Python dicts  *)
(* are functions with a finite domain of keys.                             *)
(***************************************************************************)
EXTENDS Integers, Sequences, FiniteSets, TLC

(***************************************************************************)
(* Python values                                                           *)
(***************************************************************************)

\* Python's None (a JSON null in a CRM response).  It is a one-element
\* sequence whose element is no character, so it differs from every string.
None == <<"<None>">>

\* The empty str ''.
Empty == <<>>

\* bool(value) for a str or None: None and '' are falsy.
Truthy(v) == v # None /\ v # Empty

\* dict.get(key, default): the default only when the key is absent; a key
\* whose value is None yields None.
DictGet(d, k, default) == IF k \in DOMAIN d THEN d[k] ELSE default

\* The empty dict {}.
EmptyDict == [k \in {} |-> None]

\* str(value): str(None) is the text 'None'.
PyStr(v) == IF v = None THEN <<"N", "o", "n", "e">> ELSE v

(***************************************************************************)
(* Characters                                                              *)
(***************************************************************************)

DigitChars == <<"0", "1", "2", "3", "4", "5", "6", "7", "8", "9">>

UpperChars == <<"A", "B", "C", "D", "E", "F", "G", "H", "I", "J", "K", "L", "M",
                "N", "O", "P", "Q", "R", "S", "T", "U", "V", "W", "X", "Y", "Z">>

LowerChars == <<"a", "b", "c", "d", "e", "f", "g", "h", "i", "j", "k", "l", "m",
                "n", "o", "p", "q", "r", "s", "t", "u", "v", "w", "x", "y", "z">>

IndexIn(seq, c) == CHOOSE i \in 1..Len(seq) : seq[i] = c

IsIn(seq, c) == \E i \in 1..Len(seq) : seq[i] = c

IsDigit(c) == IsIn(DigitChars, c)

\* \s of the re module, str.strip(): the blank is the only white space the
\* modelled texts contain.
IsSpace(c) == c = " "

DigitVal(c) == IndexIn(DigitChars, c) - 1

\* str.lower() on one character.
LowerChar(c) == IF IsIn(UpperChars, c) THEN LowerChars[IndexIn(UpperChars, c)] ELSE c

\* str.upper() on one character.
UpperChar(c) == IF IsIn(LowerChars, c) THEN UpperChars[IndexIn(LowerChars, c)] ELSE c

\* The code point of a character (ASCII): the order str comparison uses.
Ord(c) ==
    IF c = " " THEN 32
    ELSE IF c = "-" THEN 45
    ELSE IF c = "." THEN 46
    ELSE IF IsDigit(c) THEN 48 + DigitVal(c)
    ELSE IF IsIn(UpperChars, c) THEN 64 + IndexIn(UpperChars, c)
    ELSE IF IsIn(LowerChars, c) THEN 96 + IndexIn(LowerChars, c)
    ELSE 127

(***************************************************************************)
(* Strings                                                                 *)
(***************************************************************************)

\* str.lower()
Lower(s) == [i \in 1..Len(s) |-> LowerChar(s[i])]

\* str.upper()
Upper(s) == [i \in 1..Len(s) |-> UpperChar(s[i])]

\* The number of leading characters of s that satisfy the test.
RECURSIVE LeadingSpaces(_)
LeadingSpaces(s) ==
    IF s # <<>> /\ IsSpace(Head(s)) THEN 1 + LeadingSpaces(Tail(s)) ELSE 0

RECURSIVE LeadingDigits(_)
LeadingDigits(s) ==
    IF s # <<>> /\ IsDigit(Head(s)) THEN 1 + LeadingDigits(Tail(s)) ELSE 0

RECURSIVE TrailingSpaces(_)
TrailingSpaces(s) ==
    IF s # <<>> /\ IsSpace(s[Len(s)])
    THEN 1 + TrailingSpaces(SubSeq(s, 1, Len(s) - 1))
    ELSE 0

\* str.strip()
Strip(s) ==
    LET a == LeadingSpaces(s)
        t == SubSeq(s, a + 1, Len(s))
    IN  SubSeq(t, 1, Len(t) - TrailingSpaces(t))

\* needle in haystack (substring test)
Contains(haystack, needle) ==
    \E i \in 1..(Len(haystack) - Len(needle) + 1) :
        SubSeq(haystack, i, i + Len(needle) - 1) = needle

\* a < b for two str values: lexicographic by code point.
RECURSIVE StrLess(_, _)
StrLess(a, b) ==
    IF b = <<>> THEN FALSE
    ELSE IF a = <<>> THEN TRUE
    ELSE IF Ord(Head(a)) # Ord(Head(b)) THEN Ord(Head(a)) < Ord(Head(b))
    ELSE StrLess(Tail(a), Tail(b))

\* str(n) for an int.
RECURSIVE NatToStr(_)
NatToStr(n) ==
    IF n < 10 THEN <<DigitChars[n + 1]>>
    ELSE Append(NatToStr(n \div 10), DigitChars[(n % 10) + 1])

IntToStr(n) == IF n < 0 THEN <<"-">> \o NatToStr(0 - n) ELSE NatToStr(n)

\* The value of a run of decimal digits.
RECURSIVE DigitsToNat(_)
DigitsToNat(s) ==
    IF s = <<>> THEN 0
    ELSE 10 * DigitsToNat(SubSeq(s, 1, Len(s) - 1)) + DigitVal(s[Len(s)])

AllDigits(s) == \A i \in 1..Len(s) : IsDigit(s[i])

(***************************************************************************)
(* Certificate Number Allocator: the local computation of                  *)
(* generate_certificate_number                                             *)
(***************************************************************************)

\* float(text) accepts, after stripping white space, an optional sign and a
\* decimal numeral with an optional fraction (digits on at least one side of
\* the point).  Exponents, 'inf' and 'nan' are outside the modelled texts.
FloatBody(s) ==
    LET t == Strip(s)
    IN  IF t # <<>> /\ Head(t) \in {"-", "+"} THEN Tail(t) ELSE t

FloatNegative(s) == LET t == Strip(s) IN t # <<>> /\ Head(t) = "-"

FloatIntPart(s) == SubSeq(FloatBody(s), 1, LeadingDigits(FloatBody(s)))

FloatFraction(s) ==
    LET b == FloatBody(s)
        k == LeadingDigits(b)
    IN  IF k < Len(b) /\ b[k + 1] = "." THEN SubSeq(b, k + 2, Len(b)) ELSE <<>>

FloatParses(s) ==
    LET b == FloatBody(s)
        k == LeadingDigits(b)
        hasPoint == k < Len(b) /\ b[k + 1] = "."
    IN  /\ AllDigits(FloatFraction(s))
        /\ IF hasPoint THEN k + Len(FloatFraction(s)) >= 1 ELSE k = Len(b) /\ k >= 1

\* int(float(current_counter)) guarded by except (ValueError, TypeError):
\* None raises TypeError, an unparsable text raises ValueError, both give 0;
\* int() truncates toward zero.
CounterInt(current_counter) ==
    IF current_counter = None THEN 0
    ELSE IF ~FloatParses(current_counter) THEN 0
    ELSE IF FloatNegative(current_counter)
         THEN 0 - DigitsToNat(FloatIntPart(current_counter))
         ELSE DigitsToNat(FloatIntPart(current_counter))

\* Variant: the increment is forgotten.
NewCounterNotIncremented(current_counter) == CounterInt(current_counter)

\* new_counter = counter_int + 1
NewCounter(current_counter) == CounterInt(current_counter) + 1

\* The minimum field width of the format specification 03d.
CounterWidth == 3

RECURSIVE ZeroPad(_, _)
ZeroPad(s, width) == IF Len(s) >= width THEN s ELSE ZeroPad(<<"0">> \o s, width)

\* Variant: the format specification d, without the padding.
Format03dUnpadded(n) == IntToStr(n)

\* f"{n:03d}": zero padding to the width, the sign counted in the width and
\* kept in front of the zeros.
Format03d(n) ==
    IF n < 0 THEN <<"-">> \o ZeroPad(NatToStr(0 - n), CounterWidth - 1)
    ELSE ZeroPad(NatToStr(n), CounterWidth)

\* cert_number = f"{site_id}-{new_counter:03d}"
CertNumber(site_id, n) == site_id \o <<"-">> \o Format03d(n)

\* Variant: the write replaces the record's properties by the ones sent.
PatchedPropertiesReplaced(props, n) == [certificate_counter |-> IntToStr(n)]

\* The properties dict of the system record after the PATCH of
\* {'properties': {'certificate_counter': new_counter}}: the CRM returns a
\* number property as its decimal text.
PatchedProperties(props, n) ==
    [k \in DOMAIN props \cup {"certificate_counter"} |->
        IF k = "certificate_counter" THEN IntToStr(n) ELSE props[k]]

(***************************************************************************)
(* Value Transformer: transform_value                                      *)
(***************************************************************************)

\* The values transform_value receives and returns, tagged with their Python
\* type: None, a str, a list (of str and None items) and an int.
NoneValue == [type |-> "NoneType", v |-> <<>>]

StrValue(text) == [type |-> "str", v |-> text]

ListValue(items) == [type |-> "list", items |-> items]

IntValue(n) == [type |-> "int", n |-> n]

\* A str or None of a CRM record as a tagged value.
ValueOf(property) == IF property = None THEN NoneValue ELSE StrValue(property)

\* bool(value): None, '', [] and 0 are falsy.
TruthyValue(value) ==
    CASE value.type = "NoneType" -> FALSE
      [] value.type = "int" -> value.n # 0
      [] value.type = "list" -> value.items # <<>>
      [] OTHER -> value.v # <<>>

\* sep.join(texts)
RECURSIVE Join(_, _)
Join(texts, sep) ==
    IF texts = <<>> THEN <<>>
    ELSE IF Len(texts) = 1 THEN texts[1]
    ELSE texts[1] \o sep \o Join(Tail(texts), sep)

\* repr(item) of a list item: a str in quotes, None as None.
ReprItem(item) == IF item = None THEN <<"N", "o", "n", "e">> ELSE <<"'">> \o item \o <<"'">>

\* str(value)
StrOf(value) ==
    CASE value.type = "NoneType" -> <<"N", "o", "n", "e">>
      [] value.type = "str" -> value.v
      [] value.type = "int" -> IntToStr(value.n)
      [] value.type = "list" ->
            <<"[">> \o Join([i \in 1..Len(value.items) |-> ReprItem(value.items[i])], <<",", " ">>) \o <<"]">>

\* The items of a list that are truthy, as str: str(v) for v in value if v
RECURSIVE TruthyItems(_)
TruthyItems(items) ==
    IF items = <<>> THEN <<>>
    ELSE IF Truthy(Head(items)) THEN <<Head(items)>> \o TruthyItems(Tail(items))
    ELSE TruthyItems(Tail(items))

\* The length of the match of \[\d+\] at position i of the text, 0 when it
\* does not match there.
BracketedNumberAt(text, i) ==
    IF i <= Len(text) /\ text[i] = "["
    THEN LET k == LeadingDigits(SubSeq(text, i + 1, Len(text)))
         IN  IF k >= 1 /\ i + k + 1 <= Len(text) /\ text[i + k + 1] = "]"
             THEN k + 2 ELSE 0
    ELSE 0

\* re.search(r'\[(\d+)\]', text): group 1 of the leftmost match, '' without
\* a match.
ExtractItemNumber(text) ==
    LET starts == {i \in 1..Len(text) : BracketedNumberAt(text, i) > 0}
    IN  IF starts = {} THEN <<>>
        ELSE LET i == CHOOSE i \in starts : \A j \in starts : i <= j
             IN  SubSeq(text, i + 1, i + BracketedNumberAt(text, i) - 2)

\* re.sub(r'\s*\[\d+\].*$', '', text).strip() for a text of one line: the
\* text is cut at the leftmost position from which white space and a
\* bracketed number follow.
ExtractName(text) ==
    LET starts == {i \in 1..Len(text) :
                      BracketedNumberAt(text,
                          i + LeadingSpaces(SubSeq(text, i, Len(text)))) > 0}
    IN  IF starts = {} THEN Strip(text)
        ELSE Strip(SubSeq(text, 1, (CHOOSE i \in starts : \A j \in starts : i <= j) - 1))

\* code_mappings of COMM_PATH_LABEL
CodeMappings ==
    <<[code |-> <<"0", "1">>, label |-> <<"B", "L", "I", "N", "K", " ", "m", "e", "s", "h", " ", "r", "a", "d", "i", "o">>],
      [code |-> <<"0", "2">>, label |-> <<"c", "e", "l", "l", "u", "l", "a", "r", " ", "v", "i", "a", " ", "A", "l", "a", "r", "m", "n", "e", "t">>],
      [code |-> <<"0", "3">>, label |-> <<"c", "e", "l", "l", "u", "l", "a", "r", " ", "v", "i", "a", " ", "D", "S", "C", " ", "I", "n", "t", "e", "g", "r", "a", "t", "i", "o", "n", " ", "B", "r", "i", "d", "g", "e">>],
      [code |-> <<"0", "4">>, label |-> <<"a", "n", "a", "l", "o", "g", " ", "t", "e", "l", "e", "p", "h", "o", "n", "e", " ", "l", "i", "n", "e">>],
      [code |-> <<"0", "5">>, label |-> <<"c", "e", "l", "l", "u", "l", "a", "r", " ", "c", "o", "n", "n", "e", "c", "t", "i", "o", "n">>],
      [code |-> <<"0", "6">>, label |-> <<"c", "e", "l", "l", "u", "l", "a", "r", " ", "v", "i", "a", " ", "a", "l", "a", "r", "m", ".", "c", "o", "m">>],
      [code |-> <<"0", "7">>, label |-> <<"i", "n", "t", "e", "r", "n", "e", "t", " ", "v", "i", "a", " ", "A", "l", "a", "r", "m", "n", "e", "t">>],
      [code |-> <<"0", "8">>, label |-> <<"i", "n", "t", "e", "r", "n", "e", "t", " ", "v", "i", "a", " ", "D", "S", "C">>],
      [code |-> <<"0", "9">>, label |-> <<"B", "L", "I", "N", "K", " ", "m", "e", "s", "h", " ", "r", "a", "d", "i", "o">>],
      [code |-> <<"1", "3">>, label |-> <<"B", "L", "I", "N", "K", " ", "m", "e", "s", "h", " ", "r", "a", "d", "i", "o">>]>>

\* COMM_PATH_LABEL for a truthy value
CommPathLabel(value) ==
    LET value_str == Lower(Strip(StrOf(value)))
        known == {i \in 1..Len(CodeMappings) : CodeMappings[i].code = value_str}
    IN  IF known # {} THEN CodeMappings[CHOOSE i \in known : TRUE].label
        ELSE IF Contains(value_str, <<"b", "l", "i", "n", "k">>) THEN <<"B", "L", "I", "N", "K", " ", "m", "e", "s", "h", " ", "r", "a", "d", "i", "o">>
        ELSE IF Contains(value_str, <<"g", "s", "m">>) \/ Contains(value_str, <<"c", "e", "l", "l", "u", "l", "a", "r">>)
             THEN <<"c", "e", "l", "l", "u", "l", "a", "r", " ", "c", "o", "n", "n", "e", "c", "t", "i", "o", "n">>
        ELSE IF Contains(value_str, <<"p", "h", "o", "n", "e">>) \/ Contains(value_str, <<"t", "e", "l", "e", "p", "h", "o", "n", "e">>)
             THEN <<"a", "n", "a", "l", "o", "g", " ", "t", "e", "l", "e", "p", "h", "o", "n", "e", " ", "l", "i", "n", "e">>
        ELSE StrOf(value)

\* any(w in path for w in ['blink', 'gsm', 'cellular'])
IsWireless(path) ==
    Contains(path, <<"b", "l", "i", "n", "k">>) \/ Contains(path, <<"g", "s", "m">>) \/ Contains(path, <<"c", "e", "l", "l", "u", "l", "a", "r">>)

\* COMM_PATH_PHRASE
CommPathPhrase(value) ==
    IF value.type # "list" \/ Len(value.items) < 2 THEN <<>>
    ELSE LET path1 == Lower(Strip(IF Truthy(value.items[1]) THEN value.items[1] ELSE <<>>))
             path2 == Lower(Strip(IF Truthy(value.items[2]) THEN value.items[2] ELSE <<>>))
         IN  IF path1 = <<>> /\ path2 = <<>> THEN <<>>
             ELSE IF IsWireless(path1) /\ IsWireless(path2) THEN <<"R", "e", "d", "u", "n", "d", "a", "n", "t", " ", "W", "i", "r", "e", "l", "e", "s", "s">>
             ELSE IF IsWireless(path1) \/ IsWireless(path2) THEN <<"G", "S", "M", " ", "O", "n", "l", "y">>
             ELSE <<>>

\* strftime('%B')
MonthNames ==
    <<<<"J", "a", "n", "u", "a", "r", "y">>, <<"F", "e", "b", "r", "u", "a", "r", "y">>, <<"M", "a", "r", "c", "h">>, <<"A", "p", "r", "i", "l">>, <<"M", "a", "y">>, <<"J", "u", "n", "e">>, <<"J", "u", "l", "y">>, <<"A", "u", "g", "u", "s", "t">>,
      <<"S", "e", "p", "t", "e", "m", "b", "e", "r">>, <<"O", "c", "t", "o", "b", "e", "r">>, <<"N", "o", "v", "e", "m", "b", "e", "r">>, <<"D", "e", "c", "e", "m", "b", "e", "r">>>>

\* A number in two digits (%d, %M, %I).
TwoDigits(n) == ZeroPad(NatToStr(n), 2)

\* %I and %p: the hour of the 12-hour clock, AM or PM.
Hour12(hour) == IF hour % 12 = 0 THEN 12 ELSE hour % 12

AmPm(hour) == IF hour < 12 THEN <<"A", "M">> ELSE <<"P", "M">>

\* str.replace(old, new): every occurrence, from the left, not overlapping.
RECURSIVE ReplaceAll(_, _, _)
ReplaceAll(text, old, new) ==
    IF Len(text) < Len(old) THEN text
    ELSE IF SubSeq(text, 1, Len(old)) = old
         THEN new \o ReplaceAll(SubSeq(text, Len(old) + 1, Len(text)), old, new)
         ELSE <<Head(text)>> \o ReplaceAll(Tail(text), old, new)

\* The days of a month.
DaysInMonth(year, month) ==
    IF month = 2
    THEN (IF year % 4 = 0 /\ (year % 100 # 0 \/ year % 400 = 0) THEN 29 ELSE 28)
    ELSE IF month \in {4, 6, 9, 11} THEN 30 ELSE 31

\* Two digits and a colon-separated run of them: dd, dd:dd, dd:dd:dd.
IsClockText(text) ==
    /\ Len(text) \in {2, 5, 8}
    /\ \A i \in 1..Len(text) : IF i % 3 = 0 THEN text[i] = ":" ELSE IsDigit(text[i])

\* datetime.fromisoformat(text) for YYYY-MM-DD, optionally followed by one
\* separator character, HH[:MM[:SS]] and an offset +HH:MM or -HH:MM; ok is
\* FALSE where it raises ValueError.  Fractions of a second and the further
\* forms later Python versions accept are outside the modelled texts.
FromIsoFormat(text) ==
    LET bad == [ok |-> FALSE, year |-> 0, month |-> 0, day |-> 0, hour |-> 0, minute |-> 0]
        num(a, b) == DigitsToNat(SubSeq(text, a, b))
        rest == SubSeq(text, 12, Len(text))
        hasOffset == Len(rest) >= 8 /\ rest[Len(rest) - 5] \in {"+", "-"}
        offset == SubSeq(rest, Len(rest) - 4, Len(rest))
        clock == IF hasOffset THEN SubSeq(rest, 1, Len(rest) - 6) ELSE rest
        field(k) == IF Len(clock) >= 3 * k - 1
                    THEN DigitsToNat(SubSeq(clock, 3 * k - 2, 3 * k - 1)) ELSE 0
    IN  IF ~(/\ Len(text) >= 10
             /\ \A i \in 1..10 : IF i \in {5, 8} THEN text[i] = "-" ELSE IsDigit(text[i]))
        THEN bad
        ELSE IF ~(/\ num(1, 4) >= 1
                  /\ num(6, 7) \in 1..12
                  /\ num(9, 10) >= 1
                  /\ num(9, 10) <= DaysInMonth(num(1, 4), num(6, 7)))
        THEN bad
        ELSE IF Len(text) = 10
        THEN [ok |-> TRUE, year |-> num(1, 4), month |-> num(6, 7), day |-> num(9, 10),
              hour |-> 0, minute |-> 0]
        ELSE IF ~(/\ Len(text) >= 13
                  /\ IsClockText(clock)
                  /\ field(1) < 24 /\ field(2) < 60 /\ field(3) < 60
                  /\ hasOffset =>
                        /\ IsClockText(offset) /\ Len(offset) = 5
                        /\ DigitsToNat(SubSeq(offset, 1, 2)) < 24
                        /\ DigitsToNat(SubSeq(offset, 4, 5)) < 60)
        THEN bad
        ELSE [ok |-> TRUE, year |-> num(1, 4), month |-> num(6, 7), day |-> num(9, 10),
              hour |-> field(1), minute |-> field(2)]

\* DATETIME_FORMAT of a str: strftime("%B %d, %Y %I:%M %p").replace(" 0", " ")
\* of the parsed value, the value itself when it does not parse.
DatetimeFormat(text) ==
    LET dt == FromIsoFormat(ReplaceAll(text, <<"Z">>, <<"+", "0", "0", ":", "0", "0">>))
    IN  IF ~dt.ok THEN text
        ELSE ReplaceAll(MonthNames[dt.month] \o <<" ">> \o TwoDigits(dt.day) \o <<",", " ">>
                            \o ZeroPad(NatToStr(dt.year), 4) \o <<" ">>
                            \o TwoDigits(Hour12(dt.hour)) \o <<":">> \o TwoDigits(dt.minute)
                            \o <<" ">> \o AmPm(dt.hour),
                        <<" ", "0">>, <<" ">>)

\* Variant: the suffix follows the last digit of the day alone.
OrdinalSuffixOfLastDigit(day) ==
    CASE day % 10 = 1 -> <<"s", "t">>
      [] day % 10 = 2 -> <<"n", "d">>
      [] day % 10 = 3 -> <<"r", "d">>
      [] OTHER -> <<"t", "h">>

\* The suffix of the day in TIMESTAMP_FORMAT.
OrdinalSuffix(day) ==
    IF 10 <= day % 100 /\ day % 100 <= 20 THEN <<"t", "h">>
    ELSE CASE day % 10 = 1 -> <<"s", "t">>
           [] day % 10 = 2 -> <<"n", "d">>
           [] day % 10 = 3 -> <<"r", "d">>
           [] OTHER -> <<"t", "h">>

\* str.lstrip('0')
RECURSIVE LStripZeros(_)
LStripZeros(text) ==
    IF text # <<>> /\ Head(text) = "0" THEN LStripZeros(Tail(text)) ELSE text

\* TIMESTAMP_FORMAT: f"{month_name} {day}{suffix}, {year} at {time_str}" of
\* the current time
TimestampFormat(now) ==
    MonthNames[now.month] \o <<" ">> \o NatToStr(now.day) \o OrdinalSuffix(now.day) \o <<",", " ">>
        \o NatToStr(now.year) \o <<" ", "a", "t", " ">>
        \o Lower(LStripZeros(TwoDigits(Hour12(now.hour)) \o <<":">> \o TwoDigits(now.minute)
                                 \o AmPm(now.hour)))

\* Variant: the test for None comes after the kinds that do not read the
\* value.
TransformValueLateNoneTest(value, transform, now) ==
    CASE transform = "TIMESTAMP_FORMAT" -> StrValue(TimestampFormat(now))
      [] transform = "DEVICE_COUNT" ->
            IF value.type = "list" THEN IntValue(Len(value.items)) ELSE IntValue(0)
      [] transform = "DEVICE_ARRAY" -> IF value.type = "list" THEN value ELSE ListValue(<<>>)
      [] OTHER -> IF value.type = "NoneType" THEN StrValue(<<>>) ELSE StrValue(StrOf(value))

\* Variant: the empty str and the empty list return '' before the kind is
\* looked at, as None does.
TransformValueEmptyShortCircuits(value, transform, now) ==
    IF ~TruthyValue(value) THEN StrValue(<<>>)
    ELSE CASE transform = "NONE" -> StrValue(StrOf(value))
           [] transform = "CONCAT_SPACE" ->
                 IF value.type = "list"
                 THEN StrValue(Join(TruthyItems(value.items), <<" ">>))
                 ELSE StrValue(StrOf(value))
           [] transform = "UPPER" -> StrValue(Upper(StrOf(value)))
           [] transform = "DATETIME_FORMAT" ->
                 IF value.type = "str" THEN StrValue(DatetimeFormat(value.v))
                 ELSE StrValue(StrOf(value))
           [] transform = "TIMESTAMP_FORMAT" -> StrValue(TimestampFormat(now))
           [] transform = "DEVICE_COUNT" ->
                 IF value.type = "list" THEN IntValue(Len(value.items)) ELSE IntValue(0)
           [] transform = "EXTRACT_ITEM_NUMBER" -> StrValue(ExtractItemNumber(StrOf(value)))
           [] transform = "EXTRACT_NAME" -> StrValue(ExtractName(StrOf(value)))
           [] transform = "DEVICE_ARRAY" ->
                 IF value.type = "list" THEN value ELSE ListValue(<<>>)
           [] transform = "COMM_PATH_LABEL" -> StrValue(CommPathLabel(value))
           [] transform = "COMM_PATH_PHRASE" -> StrValue(CommPathPhrase(value))
           [] OTHER -> StrValue(StrOf(value))

\* transform_value(value, transform) when the clock shows now
transform_value(value, transform, now) ==
    IF value.type = "NoneType" THEN StrValue(<<>>)
    ELSE CASE transform = "NONE" -> StrValue(StrOf(value))
           [] transform = "CONCAT_SPACE" ->
                 IF value.type = "list"
                 THEN StrValue(Join(TruthyItems(value.items), <<" ">>))
                 ELSE StrValue(StrOf(value))
           [] transform = "UPPER" -> StrValue(Upper(StrOf(value)))
           [] transform = "DATETIME_FORMAT" ->
                 IF value.type = "str" THEN StrValue(DatetimeFormat(value.v))
                 ELSE StrValue(StrOf(value))
           [] transform = "TIMESTAMP_FORMAT" -> StrValue(TimestampFormat(now))
           [] transform = "DEVICE_COUNT" ->
                 IF value.type = "list" THEN IntValue(Len(value.items)) ELSE IntValue(0)
           [] transform = "EXTRACT_ITEM_NUMBER" -> StrValue(ExtractItemNumber(StrOf(value)))
           [] transform = "EXTRACT_NAME" -> StrValue(ExtractName(StrOf(value)))
           [] transform = "DEVICE_ARRAY" ->
                 IF value.type = "list" THEN value ELSE ListValue(<<>>)
           [] transform = "COMM_PATH_LABEL" ->
                 IF ~TruthyValue(value) THEN StrValue(<<>>)
                 ELSE StrValue(CommPathLabel(value))
           [] transform = "COMM_PATH_PHRASE" -> StrValue(CommPathPhrase(value))
           [] OTHER -> StrValue(StrOf(value))

(***************************************************************************)
(* Device Classifier: group_devices                                        *)
(***************************************************************************)

\* categories, in the order of the list
Categories ==
    <<"Perimeter", "Motion", "Glassbreak", "ShockVibration", "PanicAlert", "Tamper",
      "NonRelaySmoke", "Sprinkler", "Heat", "CO", "Flood", "Sump",
      "120vSmoke", "Gas", "Humidity", "IntegratedEnvironmental", "Temperature",
      "Waterflow">>

CategorySet == {Categories[i] : i \in 1..Len(Categories)}

\* type_rules, in the insertion order of the dict
TypeRules ==
    << [category |-> "Perimeter",      types |-> {<<"1">>}],
       [category |-> "Motion",         types |-> {<<"2">>}],
       [category |-> "Glassbreak",     types |-> {<<"1", "9">>}],
       [category |-> "ShockVibration", types |-> {<<"5", "4">>}],
       [category |-> "PanicAlert",     types |-> {<<"9">>, <<"3", "4">>, <<"1", "0", "4">>}],
       [category |-> "Tamper",         types |-> {<<"1", "2", "4">>}],
       [category |-> "NonRelaySmoke",  types |-> {<<"5">>, <<"5", "3">>}],
       [category |-> "Heat",           types |-> {<<"8">>}],
       [category |-> "CO",             types |-> {<<"6">>}],
       [category |-> "Flood",          types |-> {<<"1", "6">>}] >>

\* subtype_map
SubtypeMap ==
    << [subtype |-> <<"3", "1", "8">>, category |-> "Sump"],
       [subtype |-> <<"4", "3", "8">>, category |-> "Sump"],
       [subtype |-> <<"4", "3", "9">>, category |-> "Sump"],
       [subtype |-> <<"1", "9", "7">>, category |-> "Sprinkler"],
       [subtype |-> <<"1", "9", "8">>, category |-> "Sprinkler"],
       [subtype |-> <<"3", "2", "2">>, category |-> "Sprinkler"],
       [subtype |-> <<"1", "1", "9">>, category |-> "Flood"],
       [subtype |-> <<"1", "2", "0">>, category |-> "Flood"],
       [subtype |-> <<"1", "8", "7">>, category |-> "Heat"],
       [subtype |-> <<"1", "8", "8">>, category |-> "Heat"],
       [subtype |-> <<"1", "0", "8">>, category |-> "Glassbreak"],
       [subtype |-> <<"1", "0", "9">>, category |-> "Glassbreak"],
       [subtype |-> <<"1", "1", "0">>, category |-> "Perimeter"],
       [subtype |-> <<"1", "1", "1">>, category |-> "Perimeter"],
       [subtype |-> <<"1", "9", "4">>, category |-> "Perimeter"],
       [subtype |-> <<"1", "9", "5">>, category |-> "Perimeter"],
       [subtype |-> <<"2", "2", "2">>, category |-> "Perimeter"],
       [subtype |-> <<"2", "2", "3">>, category |-> "Perimeter"],
       [subtype |-> <<"2", "2", "1">>, category |-> "Perimeter"],
       [subtype |-> <<"2", "2", "5">>, category |-> "Perimeter"],
       [subtype |-> <<"2", "2", "4">>, category |-> "Perimeter"],
       [subtype |-> <<"1", "6", "7">>, category |-> "CO"],
       [subtype |-> <<"1", "5", "9">>, category |-> "CO"] >>

\* equipment_subtype in subtype_map
InSubtypeMap(subtype) == \E i \in 1..Len(SubtypeMap) : SubtypeMap[i].subtype = subtype

\* subtype_map[equipment_subtype]
SubtypeCategory(subtype) ==
    SubtypeMap[CHOOSE i \in 1..Len(SubtypeMap) : SubtypeMap[i].subtype = subtype].category

\* The sensor group that marks a sprinkler.
SprinklerGroup == <<"4", "8">>

\* equipment_subtype = str(device.get('equipment_subtype', '')).strip()
EquipmentSubtype(device) == Strip(PyStr(DictGet(device, "equipment_subtype", Empty)))

\* equipment_type = str(device.get('alarm_com_equipment_type', '')).strip()
EquipmentType(device) == Strip(PyStr(DictGet(device, "alarm_com_equipment_type", Empty)))

\* sensor_group = str(device.get('alarm_com_sensor_group', ''))
SensorGroup(device) == PyStr(DictGet(device, "alarm_com_sensor_group", Empty))

\* device.get('alarm_com_description', '')
Description(device) == DictGet(device, "alarm_com_description", Empty)

\* The exclusion test of a matched category.  For NonRelaySmoke the
\* description is lower-cased first: None has no lower(), which raises
\* AttributeError.
ExclusionRaises(category, device) ==
    category = "NonRelaySmoke" /\ Description(device) = None

Excluded(category, device) ==
    \/ /\ category = "NonRelaySmoke"
       /\ \/ Contains(Lower(Description(device)), <<"r", "e", "l", "a", "y">>)
          \/ Contains(Lower(Description(device)), <<"1", "2", "0", "v">>)
          \/ SensorGroup(device) = SprinklerGroup
    \/ /\ category = "Heat"
       /\ SensorGroup(device) = SprinklerGroup

\* The loop over type_rules.items() from rule i on: the category the device
\* is appended to, "" when the loop ends with matched = False, "!" when the
\* exclusion test raises.  An excluded device continues with the next rule.
RECURSIVE MatchTypeRules(_, _)
MatchTypeRules(device, i) ==
    IF i > Len(TypeRules) THEN ""
    ELSE IF EquipmentType(device) \in TypeRules[i].types
         THEN IF ExclusionRaises(TypeRules[i].category, device) THEN "!"
              ELSE IF Excluded(TypeRules[i].category, device)
                   THEN MatchTypeRules(device, i + 1)
                   ELSE TypeRules[i].category
         ELSE MatchTypeRules(device, i + 1)

\* Variant: the sensor-group check places a device in Waterflow.
ClassifyFallbackToWaterflow(device) ==
    IF InSubtypeMap(EquipmentSubtype(device))
    THEN SubtypeCategory(EquipmentSubtype(device))
    ELSE LET c == MatchTypeRules(device, 1)
         IN  IF c = "" /\ SensorGroup(device) = SprinklerGroup THEN "Waterflow" ELSE c

\* Variant: no sensor-group check after the type rules.
ClassifyWithoutFallback(device) ==
    IF InSubtypeMap(EquipmentSubtype(device))
    THEN SubtypeCategory(EquipmentSubtype(device))
    ELSE MatchTypeRules(device, 1)

\* Variant: only the subtype table and the sensor-group fallback classify,
\* the type rules are not consulted.
ClassifyBySubtypeOnly(device) ==
    IF InSubtypeMap(EquipmentSubtype(device))
    THEN SubtypeCategory(EquipmentSubtype(device))
    ELSE IF SensorGroup(device) = SprinklerGroup THEN "Sprinkler" ELSE ""

\* The body of the loop over devices for one device: the category it is
\* appended to, "" when it is appended to none, "!" when the body raises.
Classify(device) ==
    IF InSubtypeMap(EquipmentSubtype(device))
    THEN SubtypeCategory(EquipmentSubtype(device))
    ELSE LET c == MatchTypeRules(device, 1)
         IN  IF c = "" /\ SensorGroup(device) = SprinklerGroup THEN "Sprinkler" ELSE c

\* re.sub(r'^\d+\s+', '', text): a leading run of digits followed by at
\* least one white-space character is removed together with that white space.
StripLeadingNumber(text) ==
    LET k == LeadingDigits(text)
        m == LeadingSpaces(SubSeq(text, k + 1, Len(text)))
    IN  IF k >= 1 /\ m >= 1 THEN SubSeq(text, k + m + 1, Len(text)) ELSE text

\* Variant: the key keeps the letter case of the description.
SortKeyCaseSensitive(device) == StripLeadingNumber(Description(device))

\* The sort key of a device.
SortKey(device) == Lower(StripLeadingNumber(Description(device)))

\* sorted() is stable: a device goes behind every device whose key is not
\* greater than its own.
RECURSIVE InsertSorted(_, _)
InsertSorted(sorted, device) ==
    IF sorted = <<>> THEN <<device>>
    ELSE IF StrLess(SortKey(device), SortKey(Head(sorted)))
         THEN <<device>> \o sorted
         ELSE <<Head(sorted)>> \o InsertSorted(Tail(sorted), device)

RECURSIVE SortDevices(_)
SortDevices(devices) ==
    IF devices = <<>> THEN <<>>
    ELSE InsertSorted(SortDevices(SubSeq(devices, 1, Len(devices) - 1)),
                      devices[Len(devices)])

\* grouped[category] after the loop over devices, in input order.
RECURSIVE Appended(_, _)
Appended(devices, category) ==
    IF devices = <<>> THEN <<>>
    ELSE IF Classify(Head(devices)) = category
         THEN <<Head(devices)>> \o Appended(Tail(devices), category)
         ELSE Appended(Tail(devices), category)

\* The exception group_devices ends with, "" when it returns: the loop
\* raises AttributeError on a None description in the NonRelaySmoke test;
\* the sort key raises TypeError (re.sub on None) for a classified device
\* whose description is None.
GroupDevicesRaises(devices) ==
    IF \E i \in 1..Len(devices) : Classify(devices[i]) = "!" THEN "AttributeError"
    ELSE IF \E i \in 1..Len(devices) :
                Classify(devices[i]) # "" /\ Description(devices[i]) = None
         THEN "TypeError"
         ELSE ""

\* Variant: only the categories that received a device are keys.
GroupDevicesUsedKeys(devices) ==
    [c \in {k \in CategorySet : Appended(devices, k) # <<>>} |->
        SortDevices(Appended(devices, c))]

\* Variant: the sensor-group check is made for every device, also for one a
\* subtype or a type rule has placed.
GroupDevicesChecksEveryGroup(devices) ==
    [c \in CategorySet |->
        SortDevices(IF c = "Sprinkler"
                    THEN SelectSeq(devices, LAMBDA d : Classify(d) = "Sprinkler"
                                                \/ SensorGroup(d) = SprinklerGroup)
                    ELSE Appended(devices, c))]

\* group_devices(devices) when it returns: every category, sorted.
group_devices(devices) ==
    [c \in CategorySet |-> SortDevices(Appended(devices, c))]

(***************************************************************************)
(* Validator: validate_data                                                *)
(***************************************************************************)

\* The message appended when a check fails, nothing otherwise.
ErrorIf(failed, message) == IF failed THEN <<message>> ELSE <<>>

\* Variant: the customer check looks at the first name only.
ValidationErrorsFirstNameOnly(data) ==
    LET site == data.SITE
        customer == data.CUSTOMER
    IN  ErrorIf(~Truthy(DictGet(site, "address", None)), "Site address is missing")
        \o ErrorIf(~Truthy(DictGet(site, "city", None)), "Site city is missing")
        \o ErrorIf(~Truthy(DictGet(site, "state", None)), "Site state is missing")
        \o ErrorIf(~Truthy(DictGet(site, "zip", None)), "Site postal code is missing")
        \o ErrorIf(~Truthy(DictGet(customer, "firstname", None)),
                   "Customer name is missing")
        \o ErrorIf(data.DEVICES = <<>>, "No devices found on system")

\* errors, in the order of the checks
ValidationErrors(data) ==
    LET site == data.SITE
        customer == data.CUSTOMER
    IN  ErrorIf(~Truthy(DictGet(site, "address", None)), "Site address is missing")
        \o ErrorIf(~Truthy(DictGet(site, "city", None)), "Site city is missing")
        \o ErrorIf(~Truthy(DictGet(site, "state", None)), "Site state is missing")
        \o ErrorIf(~Truthy(DictGet(site, "zip", None)), "Site postal code is missing")
        \o ErrorIf(~Truthy(DictGet(customer, "firstname", None))
                     /\ ~Truthy(DictGet(customer, "lastname", None)),
                   "Customer name is missing")
        \o ErrorIf(data.DEVICES = <<>>, "No devices found on system")

\* validate_data(data) = (len(errors) == 0, errors)
validate_data(data) ==
    [is_valid |-> ValidationErrors(data) = <<>>, errors |-> ValidationErrors(data)]

\* ', '.join(errors): the pieces of the joined text, in order.
RECURSIVE JoinComma(_)
JoinComma(errors) ==
    IF errors = <<>> THEN <<>>
    ELSE IF Len(errors) = 1 THEN errors
    ELSE <<Head(errors), ", ">> \o JoinComma(Tail(errors))

\* Variant: only the first violated check is reported.
ValidationMessageFirstOnly(errors) == <<"Validation failed: ", Head(errors)>>

\* f"Validation failed: {', '.join(errors)}"
ValidationMessage(errors) == <<"Validation failed: ">> \o JoinComma(errors)

(***************************************************************************)
(* Data Fetcher: fetch_hubspot_data                                        *)
(***************************************************************************)

\* response.json().get('properties', {}) if response.status_code == 200 else {}
PropertiesOf(response) == IF response.status = 200 THEN response.properties ELSE EmptyDict

\* Variant: the CUSTOMER key is set only when a contact was read.
FetchWithoutCustomerKey(crm) ==
    IF crm.associations.status = 200 /\ crm.associations.results # <<>>
    THEN [AGREEMENT |-> PropertiesOf(crm.agreement),
          SYSTEM    |-> PropertiesOf(crm.system),
          SITE      |-> PropertiesOf(crm.site),
          CUSTOMER  |-> PropertiesOf(crm.contact),
          DEVICES   |-> IF crm.devices.status = 200 THEN crm.devices.results ELSE <<>>]
    ELSE [AGREEMENT |-> PropertiesOf(crm.agreement),
          SYSTEM    |-> PropertiesOf(crm.system),
          SITE      |-> PropertiesOf(crm.site),
          DEVICES   |-> IF crm.devices.status = 200 THEN crm.devices.results ELSE <<>>]

\* The bundle built from the CRM's responses.  The contact is read only when
\* the association lookup succeeds with a result.
fetch_hubspot_data(crm) ==
    [AGREEMENT |-> PropertiesOf(crm.agreement),
     SYSTEM    |-> PropertiesOf(crm.system),
     SITE      |-> PropertiesOf(crm.site),
     CUSTOMER  |-> IF crm.associations.status = 200 /\ crm.associations.results # <<>>
                   THEN PropertiesOf(crm.contact)
                   ELSE EmptyDict,
     DEVICES   |-> IF crm.devices.status = 200 THEN crm.devices.results ELSE <<>>]

\* One HTTP request and the status code of its response (0: no response).
Call(request, status) == [request |-> request, status |-> status]

\* The requests fetch_hubspot_data issues, in order.
FetchCalls(crm) ==
    <<Call("GET agreement", crm.agreement.status),
      Call("GET system", crm.system.status),
      Call("GET site", crm.site.status),
      Call("GET associations", crm.associations.status)>>
    \o (IF crm.associations.status = 200 /\ crm.associations.results # <<>>
        THEN <<Call("GET contact", crm.contact.status)>> ELSE <<>>)
    \o <<Call("POST device search", crm.devices.status)>>

(***************************************************************************)
(* Field Assembler: assemble_certificate_fields (the fields about the      *)
(* certificate number, the site name and the device categories)            *)
(***************************************************************************)

\* device.get('adc_deviceid') or device.get('zone__') or ''
ZoneOf(device) ==
    IF Truthy(DictGet(device, "adc_deviceid", None)) THEN device.adc_deviceid
    ELSE IF Truthy(DictGet(device, "zone__", None)) THEN device.zone__
    ELSE Empty

\* {'name': desc_clean, 'zone': ...} of one device
ZoneEntry(device) ==
    [name |-> StripLeadingNumber(DictGet(device, "alarm_com_description",
                 <<"U", "n", "k", "n", "o", "w", "n", " ", "D", "e", "v", "i", "c", "e">>)),
     zone |-> ZoneOf(device)]

\* site.get('mas_site_name') or site.get('name', '')
SiteName(site) ==
    IF Truthy(DictGet(site, "mas_site_name", None)) THEN site.mas_site_name
    ELSE DictGet(site, "name", Empty)

\* Variant: a device without a description gets no entry.
DeviceListOfDescribed(devices) ==
    LET described == SelectSeq(devices, LAMBDA d : "alarm_com_description" \in DOMAIN d)
    IN  [i \in 1..Len(described) |-> ZoneEntry(described[i])]

\* device_list of the devices of one category
device_list(devices) == [i \in 1..Len(devices) |-> ZoneEntry(devices[i])]

\* timestamp_suffix of the day of the month
timestamp_suffix(day) ==
    IF 11 <= day /\ day <= 13 THEN <<"t", "h">>
    ELSE CASE day % 10 = 1 -> <<"s", "t">>
           [] day % 10 = 2 -> <<"n", "d">>
           [] day % 10 = 3 -> <<"r", "d">>
           [] OTHER -> <<"t", "h">>

\* timestamp_str of the time now that datetime.now(pst) reads
timestamp_str(now) ==
    MonthNames[now.month] \o <<" ">> \o NatToStr(now.day) \o timestamp_suffix(now.day)
        \o <<",", " ">> \o NatToStr(now.year) \o <<" ", "a", "t", " ">>
        \o LStripZeros(Lower(TwoDigits(Hour12(now.hour)) \o <<":">> \o TwoDigits(now.minute)
                                 \o AmPm(now.hour)))

\* status_fields, the known suffixes of the agreement's status properties
status_fields ==
    <<"15746", "15747", "14380", "14385", "14386", "14387", "14388", "14399", "15082",
      "14389", "14390", "14391", "14401", "14393", "14394", "14395", "14396", "14397",
      "14398", "14726", "15711", "15787", "15272", "14920", "14631", "15252", "14372",
      "15756", "15753", "15754", "14366", "14367">>

\* The prefixes tried for each suffix, in the order of the loop.
StatusPrefixes ==
    <<"agreement_plan_communication_", "agreement_plan_gateway_",
      "agreement_plan_intrusion_", "agreement_plan_fire_",
      "agreement_plan_environmental_", "agreement_plan_integratedsystems_",
      "agreement_plan_response_", "agreement_plan_verify_",
      "agreement_plan_trespass_">>

\* prop_name = f'{prefix}{field_num}' for every suffix and every prefix
prop_name ==
    [field_num \in {status_fields[i] : i \in 1..Len(status_fields)} |->
        [j \in 1..Len(StatusPrefixes) |-> StatusPrefixes[j] \o field_num]]

\* Variant: the loop over the prefixes has no break, the last property that
\* is present is the one copied.
ProbeEveryPrefix(agreement, field_num, i) ==
    LET present == {j \in i..Len(StatusPrefixes) :
                        prop_name[field_num][j] \in DOMAIN agreement}
    IN  IF present = {} THEN ""
        ELSE prop_name[field_num][CHOOSE j \in present : \A m \in present : m <= j]

\* The loop over the prefixes from the i-th on: prop_name at the break, "" when
\* the loop ends without one.
RECURSIVE ProbePrefixes(_, _, _)
ProbePrefixes(agreement, field_num, i) ==
    IF i > Len(StatusPrefixes) THEN ""
    ELSE IF prop_name[field_num][i] \in DOMAIN agreement
         THEN prop_name[field_num][i]
         ELSE ProbePrefixes(agreement, field_num, i + 1)

\* The suffixes with a property in the agreement.
StatusFound(agreement) ==
    {i \in 1..Len(status_fields) : ProbePrefixes(agreement, status_fields[i], 1) # ""}

assemble_certificate_fields(hubspot_data, grouped, cert_no, broker_email, requestor_name, now) ==
    [k \in {"CERTIFICATE_Number", "CERTIFICATE_TimeStamp", "SITE_Name",
            "CERTIFICATE_Recipient_Name", "CERTIFICATE_Recipient_Company"}
           \cup {"AGREEMENT_Status_" \o status_fields[i] :
                     i \in StatusFound(hubspot_data.AGREEMENT)}
           \cup {"Zones_" \o c : c \in DOMAIN grouped}
           \cup {"Count_" \o c : c \in DOMAIN grouped} |->
        IF k = "CERTIFICATE_Number" THEN cert_no
        ELSE IF k = "CERTIFICATE_TimeStamp" THEN timestamp_str(now)
        ELSE IF k = "SITE_Name" THEN SiteName(hubspot_data.SITE)
        ELSE IF k = "CERTIFICATE_Recipient_Name"
             THEN (IF Truthy(requestor_name) THEN requestor_name ELSE Empty)
        ELSE IF k = "CERTIFICATE_Recipient_Company"
             THEN (IF Truthy(broker_email) THEN broker_email ELSE Empty)
        ELSE IF \E c \in DOMAIN grouped : k = "Zones_" \o c
             THEN LET c == CHOOSE c \in DOMAIN grouped : k = "Zones_" \o c
                  IN  device_list(grouped[c])
        ELSE IF \E c \in DOMAIN grouped : k = "Count_" \o c
             THEN LET c == CHOOSE c \in DOMAIN grouped : k = "Count_" \o c
                  IN  Len(device_list(grouped[c]))
        ELSE LET i == CHOOSE i \in 1..Len(status_fields) :
                          k = "AGREEMENT_Status_" \o status_fields[i]
             IN  hubspot_data.AGREEMENT[
                     ProbePrefixes(hubspot_data.AGREEMENT, status_fields[i], 1)]]

(***************************************************************************)
(* The inputs the model draws from                                         *)
(***************************************************************************)

\* The number of requests (handler invocations) of a behaviour.
NumReqs == 2

Reqs == 1..NumReqs

\* The longest device list of the classifier's own specification.
MaxDevices == 2

\* System record ids (opaque) and site ids (texts, they become the prefix of
\* the certificate number).
Systems == {"X", "Y"}

Sites == {<<"9", "9", "9", "9">>, <<"7", "7">>}

\* A device record as the device search returns it: every requested
\* property is a key, an unset property is None.
Device(description, type, subtype, group, id) ==
    [alarm_com_description    |-> description,
     alarm_com_equipment_type |-> type,
     equipment_subtype        |-> subtype,
     alarm_com_sensor_group   |-> group,
     adc_deviceid             |-> id,
     zone__                   |-> None]

FrontDoor ==
    Device(<<"3", " ", "F", "r", "o", "n", "t", " ", "D", "o", "o", "r">>,
           <<"1">>, None, None, <<"7">>)

BackDoor ==
    Device(<<"1", "2", " ", "b", "a", "c", "k", " ", "d", "o", "o", "r">>,
           <<"1">>, <<>>, <<"1", "0">>, <<"1", "2">>)

\* subtype 318 (Sump) on a smoke detector whose own rule would exclude it
SumpOnSmoke ==
    Device(<<"R", "e", "l", "a", "y">>, <<"5">>, <<"3", "1", "8">>, <<"4", "8">>, <<"3">>)

\* subtype 197 (Sprinkler), with blanks around it, on a heat detector
SprinklerOnHeat ==
    Device(<<"A", "t", "t", "i", "c">>, <<"8">>, <<" ", "1", "9", "7", " ">>, None, <<"4">>)

\* subtype 110 (Perimeter) on a motion detector without a description
UnnamedContact == Device(None, <<"2">>, <<"1", "1", "0">>, None, <<"5">>)

MainsSmoke ==
    Device(<<"1", "2", "0", "V", " ", "S", "m", "o", "k", "e">>,
           <<"5", "3">>, None, None, <<"6">>)

HallSmoke ==
    Device(<<"H", "a", "l", "l", " ", "S", "m", "o", "k", "e">>,
           <<"5">>, None, <<"4", "8">>, <<"8">>)

RiserHeat ==
    Device(<<"r", "i", "s", "e", "r">>, <<"8">>, None, <<"4", "8">>, <<"9">>)

UnnamedSmoke == Device(None, <<"5">>, None, None, None)

\* a record with an unknown type and without the other keys
Keypad == [alarm_com_equipment_type |-> <<"7", "7">>]

\* a 120v smoke detector in sensor group 48
MainsRiserSmoke ==
    Device(<<"1", "2", "0", "v", " ", "r", "i", "s", "e", "r">>,
           <<"5">>, None, <<"4", "8">>, <<"1", "0">>)

\* a motion detector whose record has no description key and no device id
HallMotion == [alarm_com_equipment_type |-> <<"2">>, zone__ |-> <<"Z", "1">>]

\* a device of an unknown type in sensor group 48
AtticSprinkler ==
    Device(<<"A", "t", "t", "i", "c">>, <<"7", "7">>, <<"9", "9", "9">>, <<"4", "8">>, <<"1", "1">>)

DeviceSet ==
    {FrontDoor, BackDoor, SumpOnSmoke, SprinklerOnHeat, UnnamedContact, MainsSmoke,
     HallSmoke, RiserHeat, UnnamedSmoke, Keypad, MainsRiserSmoke, HallMotion,
     AtticSprinkler}

DeviceLists == UNION {[1..n -> DeviceSet] : n \in 0..MaxDevices}

\* The times datetime.now(pst) reads when a request assembles its fields.
RequestClock == [year |-> 2026, month |-> 11, day |-> 5, hour |-> 13, minute |-> 3]

PstClocks == {RequestClock, [RequestClock EXCEPT !.day = 11, !.hour = 0]}

\* A 200 response with a property set, a failed response.
Ok(properties) == [status |-> 200, properties |-> properties]

NotFound == [status |-> 404, properties |-> EmptyDict]

SiteRecord ==
    [name          |-> <<"H", "Q">>,
     mas_site_name |-> None,
     address       |-> <<"1", " ", "M", "a", "i", "n">>,
     city          |-> <<"Y", "V", "R">>,
     state         |-> <<"B", "C">>,
     zip           |-> <<"v", "6", "e">>]

ContactRecord == [firstname |-> <<"A", "n", "n">>, lastname |-> None]

\* What the CRM answers to the reads of one fetch.
CompleteCrm ==
    [agreement    |-> Ok([hs_object_id |-> <<"1">>]),
     system       |-> Ok([hs_object_id |-> <<"2">>]),
     site         |-> Ok(SiteRecord),
     associations |-> [status |-> 200, results |-> <<"c1">>],
     contact      |-> Ok(ContactRecord),
     devices      |-> [status |-> 200, results |-> <<FrontDoor>>]]

\* the site has no postal code and the device search fails
IncompleteCrm ==
    [CompleteCrm EXCEPT !.site = Ok([SiteRecord EXCEPT !.zip = None]),
                        !.devices = [status |-> 500, results |-> <<>>]]

\* complete, but the only device has no description
UnnamedDeviceCrm ==
    [CompleteCrm EXCEPT !.devices = [status |-> 200, results |-> <<UnnamedContact>>]]

CrmAnswers == {CompleteCrm, IncompleteCrm, UnnamedDeviceCrm}

\* The certificate_counter property of a system record before the first
\* allocation: never set (None), or a number as text.
InitCounters == {None, <<"4">>}

\* The texts the allocator's own specification reads the counter from.
CounterTexts ==
    {None, <<>>, <<"0">>, <<"4">>, <<"4", ".", "0">>, <<"4", ".", "7">>, <<" ", "7", " ">>,
     <<"9">>, <<"9", "9">>, <<"9", "9", "9">>, <<"n", "a">>, <<"1", "2", "x">>}

\* Status codes of the counter read, the counter write and the render call
\* (0: the call raises, no response within the timeout).
GetStatuses == {200, 404}

PatchStatuses == {200, 400}

RenderStatuses == {200, 500, 0}

(***************************************************************************)
(* State                                                                   *)
(***************************************************************************)

VARIABLES
    crm_system,       \* CRM: the properties of each system record (certificate_counter)
    pc,               \* per request: the step the handler is at
    system_id,        \* per request: systemId of the payload
    site_id,          \* per request: siteId of the payload
    hubspot_data,     \* per request: the fetched bundle
    current_counter,  \* per request: the counter value the allocator read
    new_counter,      \* per request: counter_int + 1
    cert_number,      \* per request: the allocator's certificate number
    grouped_devices,  \* per request: the result of group_devices
    webmerge_params,  \* per request: the field map
    response,         \* per request: the handler's HTTP response
    calls,            \* per request: the HTTP requests issued, in order
    log,              \* per request: the progress lines printed, in order
    transformed       \* the call of transform_value made on its own, and its result

vars ==
    <<crm_system, pc, system_id, site_id, hubspot_data, current_counter, new_counter,
      cert_number, grouped_devices, webmerge_params, response, calls, log, transformed>>

\* No call of transform_value on its own yet.
NoCall ==
    [value |-> NoneValue, transform |-> "",
     now |-> [year |-> 0, month |-> 0, day |-> 0, hour |-> 0, minute |-> 0],
     result |-> NoneValue, done |-> FALSE]

\* The bundle before the fetch.
NoData ==
    [AGREEMENT |-> EmptyDict, SYSTEM |-> EmptyDict, SITE |-> EmptyDict,
     CUSTOMER |-> EmptyDict, DEVICES |-> <<>>]

NoResponse == [status |-> 0, error |-> <<>>, details |-> <<>>, certificate_number |-> None]

\* The handler's responses: except ValueError gives 400 with the message,
\* except Exception gives 500 with the message as details.
ErrorResponse(exception, message) ==
    IF exception = "ValueError"
    THEN [status |-> 400, error |-> message, details |-> <<>>, certificate_number |-> None]
    ELSE [status |-> 500, error |-> <<"Internal server error">>, details |-> message,
          certificate_number |-> None]

\* The state of the requests before any arrives.
InitRequests ==
    /\ pc = [r \in Reqs |-> "idle"]
    /\ system_id = [r \in Reqs |-> ""]
    /\ site_id = [r \in Reqs |-> Empty]
    /\ hubspot_data = [r \in Reqs |-> NoData]
    /\ current_counter = [r \in Reqs |-> None]
    /\ new_counter = [r \in Reqs |-> 0]
    /\ cert_number = [r \in Reqs |-> None]
    /\ grouped_devices = [r \in Reqs |-> EmptyDict]
    /\ webmerge_params = [r \in Reqs |-> EmptyDict]
    /\ response = [r \in Reqs |-> NoResponse]
    /\ calls = [r \in Reqs |-> <<>>]
    /\ log = [r \in Reqs |-> <<>>]
    /\ transformed = NoCall

\* System X starts with any of the initial counters, system Y was never
\* allocated from.
Init ==
    /\ crm_system \in {[s \in Systems |-> [certificate_counter |->
                                               IF s = "X" THEN c ELSE None]] :
                           c \in InitCounters}
    /\ InitRequests

(***************************************************************************)
(* The handler generate_certificate_v2 and the engine it calls             *)
(***************************************************************************)

\* The handler returns: its locals and the engine's are gone.
Return(r, resp) ==
    /\ pc' = [pc EXCEPT ![r] = "done"]
    /\ response' = [response EXCEPT ![r] = resp]
    /\ hubspot_data' = [hubspot_data EXCEPT ![r] = NoData]
    /\ current_counter' = [current_counter EXCEPT ![r] = None]
    /\ new_counter' = [new_counter EXCEPT ![r] = 0]
    /\ grouped_devices' = [grouped_devices EXCEPT ![r] = EmptyDict]
    /\ webmerge_params' = [webmerge_params EXCEPT ![r] = EmptyDict]

\* An exception reaches the handler's except clauses.
Raise(r, exception, message) == Return(r, ErrorResponse(exception, message))

\* The payloads of concurrent requests: two systems of one site, a bad
\* signature, a missing id.
Payloads ==
    {[signature |-> TRUE, systemId |-> "X", siteId |-> <<"9", "9", "9", "9">>],
     [signature |-> TRUE, systemId |-> "Y", siteId |-> <<"9", "9", "9", "9">>],
     [signature |-> FALSE, systemId |-> "X", siteId |-> <<"7", "7">>],
     [signature |-> TRUE, systemId |-> "", siteId |-> <<"7", "7">>]}

\* The payloads of requests handled one at a time: a second site as well.
SeqPayloads ==
    Payloads \cup {[signature |-> TRUE, systemId |-> "X", siteId |-> <<"7", "7">>]}

\* The locals that Return resets.
locals == <<hubspot_data, current_counter, new_counter, grouped_devices, webmerge_params>>

\* The handler up to the call of generate_certificate_data: the signature
\* check and the check of the required ids.  Requests are numbered in the
\* order of their arrival.
Receive(r, payloads) ==
    /\ pc[r] = "idle"
    /\ \A q \in Reqs : q < r => pc[q] # "idle"
    /\ \E payload \in payloads :
        IF ~payload.signature
        THEN /\ Return(r, [NoResponse EXCEPT !.status = 401,
                                             !.error = <<"Invalid signature">>])
             /\ UNCHANGED <<system_id, site_id>>
        ELSE IF payload.systemId = "" \/ payload.siteId = Empty
        THEN /\ Return(r, [NoResponse EXCEPT
                    !.status = 400,
                    !.error = <<"Missing required IDs: agreementId, systemId, siteId">>])
             /\ UNCHANGED <<system_id, site_id>>
        ELSE /\ system_id' = [system_id EXCEPT ![r] = payload.systemId]
             /\ site_id' = [site_id EXCEPT ![r] = payload.siteId]
             /\ pc' = [pc EXCEPT ![r] = "fetch"]
             /\ UNCHANGED <<locals, response>>
    /\ UNCHANGED <<crm_system, cert_number, calls, log>>
    /\ UNCHANGED transformed

\* A request arrives while others may be in flight.
ReceiveRequest(r) == Receive(r, Payloads)

\* A request arrives when no other is in flight.
ReceiveNextRequest(r) ==
    /\ \A q \in Reqs : pc[q] \in {"idle", "done"}
    /\ Receive(r, SeqPayloads)

\* Variant: the engine goes from the fetch straight to the allocation.
FetchSkipsValidation(r) ==
    /\ pc[r] = "fetch"
    /\ \E crm \in CrmAnswers :
        /\ hubspot_data' = [hubspot_data EXCEPT ![r] = fetch_hubspot_data(crm)]
        /\ calls' = [calls EXCEPT ![r] = @ \o FetchCalls(crm)]
    /\ log' = [log EXCEPT ![r] = Append(@, "Step 1")]
    /\ pc' = [pc EXCEPT ![r] = "allocate"]
    /\ UNCHANGED <<crm_system, system_id, site_id, current_counter, new_counter,
                   cert_number, grouped_devices, webmerge_params, response>>
    /\ UNCHANGED transformed

\* Step 1: fetch_hubspot_data, the CRM answering with one of the answers
FetchFrom(r, answers) ==
    /\ pc[r] = "fetch"
    /\ \E crm \in answers :
        /\ hubspot_data' = [hubspot_data EXCEPT ![r] = fetch_hubspot_data(crm)]
        /\ calls' = [calls EXCEPT ![r] = @ \o FetchCalls(crm)]
    /\ log' = [log EXCEPT ![r] = Append(@, "Step 1")]
    /\ pc' = [pc EXCEPT ![r] = "validate"]
    /\ UNCHANGED <<crm_system, system_id, site_id, current_counter, new_counter,
                   cert_number, grouped_devices, webmerge_params, response>>
    /\ UNCHANGED transformed

Fetch(r) == FetchFrom(r, CrmAnswers)

\* Step 2: validate_data, ValueError when not valid
Validate(r) ==
    /\ pc[r] = "validate"
    /\ LET result == validate_data(hubspot_data[r])
       IN  IF ~result.is_valid
           THEN /\ Raise(r, "ValueError", ValidationMessage(result.errors))
                /\ log' = [log EXCEPT ![r] = Append(@, "Step 2")]
           ELSE /\ pc' = [pc EXCEPT ![r] = "allocate"]
                /\ log' = [log EXCEPT ![r] = @ \o <<"Step 2", "Validation passed">>]
                /\ UNCHANGED <<locals, response>>
    /\ UNCHANGED <<crm_system, system_id, site_id, cert_number, calls>>
    /\ UNCHANGED transformed

\* Variant: the status of the counter read is not checked; a failed read is
\* taken as a record without properties.
GetCounterIgnoresStatus(r) ==
    /\ pc[r] = "allocate"
    /\ log' = [log EXCEPT ![r] = Append(@, "Step 3")]
    /\ \E status \in GetStatuses :
        /\ calls' = [calls EXCEPT ![r] = Append(@, Call("GET counter", status))]
        /\ LET read == IF status = 200
                       THEN DictGet(crm_system[system_id[r]], "certificate_counter",
                                    <<"0">>)
                       ELSE <<"0">>
           IN  /\ current_counter' = [current_counter EXCEPT ![r] = read]
               /\ new_counter' = [new_counter EXCEPT ![r] = NewCounter(read)]
               /\ pc' = [pc EXCEPT ![r] = "update"]
               /\ UNCHANGED <<hubspot_data, grouped_devices, webmerge_params, response>>
    /\ UNCHANGED <<crm_system, system_id, site_id, cert_number>>
    /\ UNCHANGED transformed

\* Variant: a failed counter read is tried once more before giving up.
GetCounterRetries(r) ==
    /\ pc[r] = "allocate"
    /\ log' = [log EXCEPT ![r] = Append(@, "Step 3")]
    /\ \E status \in GetStatuses :
        /\ calls' = [calls EXCEPT ![r] = Append(@, Call("GET counter", status))]
        /\ IF status # 200
           THEN IF \E i \in 1..Len(calls[r]) : calls[r][i].request = "GET counter"
                THEN Raise(r, "Exception", <<"Failed to get system: ">>)
                ELSE UNCHANGED <<pc, locals, response>>
           ELSE LET read == DictGet(crm_system[system_id[r]], "certificate_counter",
                                    <<"0">>)
                IN  /\ current_counter' = [current_counter EXCEPT ![r] = read]
                    /\ new_counter' = [new_counter EXCEPT ![r] = NewCounter(read)]
                    /\ pc' = [pc EXCEPT ![r] = "update"]
                    /\ UNCHANGED <<hubspot_data, grouped_devices, webmerge_params,
                                   response>>
    /\ UNCHANGED <<crm_system, system_id, site_id, cert_number>>
    /\ UNCHANGED transformed

\* Step 3, generate_certificate_number up to the PATCH: the GET of the
\* counter and the computation of the new counter.
GetCounter(r) ==
    /\ pc[r] = "allocate"
    /\ log' = [log EXCEPT ![r] = Append(@, "Step 3")]
    /\ \E status \in GetStatuses :
        /\ calls' = [calls EXCEPT ![r] = Append(@, Call("GET counter", status))]
        /\ IF status # 200
           THEN Raise(r, "Exception", <<"Failed to get system: ">>)
              ELSE LET read == DictGet(crm_system[system_id[r]], "certificate_counter",
                                    <<"0">>)
                IN  /\ current_counter' = [current_counter EXCEPT ![r] = read]
                    /\ new_counter' = [new_counter EXCEPT ![r] = NewCounter(read)]
                    /\ pc' = [pc EXCEPT ![r] = "update"]
                    /\ UNCHANGED <<hubspot_data, grouped_devices, webmerge_params,
                                   response>>
    /\ UNCHANGED <<crm_system, system_id, site_id, cert_number>>
    /\ UNCHANGED transformed

\* Variant: one counter for all systems, the write reaches every system
\* record.
PatchCounterEverySystem(r) ==
    /\ pc[r] = "update"
    /\ \E status \in PatchStatuses :
        /\ calls' = [calls EXCEPT ![r] = Append(@, Call("PATCH counter", status))]
        /\ IF status \notin {200, 201}
           THEN /\ Raise(r, "Exception", <<"Failed to update counter: ">>)
                /\ UNCHANGED <<crm_system, cert_number, log>>
           ELSE /\ crm_system' = [s \in Systems |->
                                      PatchedProperties(crm_system[s], new_counter[r])]
                /\ cert_number' =
                       [cert_number EXCEPT ![r] = CertNumber(site_id[r], new_counter[r])]
                /\ log' = [log EXCEPT ![r] = Append(@, "Certificate number")]
                /\ pc' = [pc EXCEPT ![r] = "group"]
                /\ UNCHANGED <<locals, response>>
    /\ UNCHANGED <<system_id, site_id>>
    /\ UNCHANGED transformed

\* generate_certificate_number from the PATCH on: the write of the counter
\* and the return of the number (printed as "Certificate number").
PatchCounter(r) ==
    /\ pc[r] = "update"
    /\ \E status \in PatchStatuses :
        /\ calls' = [calls EXCEPT ![r] = Append(@, Call("PATCH counter", status))]
        /\ IF status \notin {200, 201}
           THEN /\ Raise(r, "Exception", <<"Failed to update counter: ">>)
                /\ UNCHANGED <<crm_system, cert_number, log>>
           ELSE /\ crm_system' = [crm_system EXCEPT ![system_id[r]] =
                                      PatchedProperties(@, new_counter[r])]
                /\ cert_number' =
                       [cert_number EXCEPT ![r] = CertNumber(site_id[r], new_counter[r])]
                /\ log' = [log EXCEPT ![r] = Append(@, "Certificate number")]
                /\ pc' = [pc EXCEPT ![r] = "group"]
                /\ UNCHANGED <<locals, response>>
    /\ UNCHANGED <<system_id, site_id>>
    /\ UNCHANGED transformed

\* Step 4: group_devices
GroupDevices(r) ==
    /\ pc[r] = "group"
    /\ log' = [log EXCEPT ![r] = Append(@, "Step 4")]
    /\ LET devices == hubspot_data[r].DEVICES
       IN  IF GroupDevicesRaises(devices) # ""
           THEN Raise(r, GroupDevicesRaises(devices), <<"expected string">>)
           ELSE /\ grouped_devices' = [grouped_devices EXCEPT ![r] = group_devices(devices)]
                /\ pc' = [pc EXCEPT ![r] = "assemble"]
                /\ UNCHANGED <<hubspot_data, current_counter, new_counter,
                               webmerge_params, response>>
    /\ UNCHANGED <<crm_system, system_id, site_id, cert_number, calls>>
    /\ UNCHANGED transformed

\* Step 5: assemble_certificate_fields, and the return to the handler
\* Variant: the device lists are emptied as their zones are built.
AssembleDrainsLists(r, clocks) ==
    /\ pc[r] = "assemble"
    /\ log' = [log EXCEPT ![r] = @ \o <<"Step 5", "READY">>]
    /\ \E now \in clocks :
        webmerge_params' = [webmerge_params EXCEPT ![r] =
            assemble_certificate_fields(hubspot_data[r], grouped_devices[r],
                                        cert_number[r], Empty, Empty, now)]
    /\ grouped_devices' = [grouped_devices EXCEPT ![r] = [c \in DOMAIN @ |-> <<>>]]
    /\ pc' = [pc EXCEPT ![r] = "broker"]
    /\ UNCHANGED <<crm_system, system_id, site_id, hubspot_data, current_counter,
                   new_counter, cert_number, response, calls>>
    /\ UNCHANGED transformed

\* Step 5 when datetime.now(pst) reads one of the times clocks
AssembleAt(r, clocks) ==
    /\ pc[r] = "assemble"
    /\ log' = [log EXCEPT ![r] = @ \o <<"Step 5", "READY">>]
    /\ \E now \in clocks :
        webmerge_params' = [webmerge_params EXCEPT ![r] =
            assemble_certificate_fields(hubspot_data[r], grouped_devices[r],
                                        cert_number[r], Empty, Empty, now)]
    /\ pc' = [pc EXCEPT ![r] = "broker"]
    /\ UNCHANGED <<crm_system, system_id, site_id, hubspot_data, current_counter,
                   new_counter, cert_number, grouped_devices, response, calls>>
    /\ UNCHANGED transformed

Assemble(r) == AssembleAt(r, {RequestClock})

\* The handler adds the broker's data to the field map.
BrokerKeys == {"broker_company", "broker_contact", "broker_email", "requestor_name"}

WithBrokerInfo(params) ==
    [k \in DOMAIN params \cup BrokerKeys |-> IF k \in BrokerKeys THEN Empty ELSE params[k]]

AddBrokerInfo(r) ==
    /\ pc[r] = "broker"
    /\ webmerge_params' = [webmerge_params EXCEPT ![r] = WithBrokerInfo(@)]
    /\ pc' = [pc EXCEPT ![r] = "render"]
    /\ UNCHANGED <<crm_system, system_id, site_id, hubspot_data, current_counter,
                   new_counter, cert_number, grouped_devices, response, calls, log>>
    /\ UNCHANGED transformed

\* Variant: a failed rendering gives the number back, the counter is written
\* again with the value that was read.
RenderRollsBack(r) ==
    /\ pc[r] = "render"
    /\ \E status \in RenderStatuses :
        /\ calls' = [calls EXCEPT ![r] = Append(@, Call("POST webmerge", status))]
        /\ IF status \in {200, 201, 204}
           THEN /\ pc' = [pc EXCEPT ![r] = "store"]
                /\ UNCHANGED <<locals, response, crm_system>>
           ELSE /\ Return(r, [NoResponse EXCEPT !.status = 500])
                /\ crm_system' = [crm_system EXCEPT ![system_id[r]] =
                                      PatchedProperties(@, new_counter[r] - 1)]
    /\ UNCHANGED <<system_id, site_id, cert_number, log>>
    /\ UNCHANGED transformed

\* The POST to the rendering service: a status outside 200, 201, 204 is
\* answered with 500, an exception of the call (the timeout) as well.
Render(r) ==
    /\ pc[r] = "render"
    /\ \E status \in RenderStatuses :
        /\ calls' = [calls EXCEPT ![r] = Append(@, Call("POST webmerge", status))]
        /\ IF status \in {200, 201, 204}
           THEN /\ pc' = [pc EXCEPT ![r] = "store"]
                /\ UNCHANGED <<locals, response>>
           ELSE IF status = 0
           THEN Raise(r, "Exception", <<"Read timed out">>)
           ELSE Return(r, [NoResponse EXCEPT !.status = 500,
                                             !.error = <<"WebMerge API error: ">>
                                                       \o IntToStr(status)])
    /\ UNCHANGED <<crm_system, system_id, site_id, cert_number, log>>
    /\ UNCHANGED transformed

\* The uploads of the PDF (their own failures are swallowed) and the 200
\* response; a site name of None has no replace(), which raises.
Store(r) ==
    /\ pc[r] = "store"
    /\ IF webmerge_params[r]["SITE_Name"] = None
       THEN Raise(r, "AttributeError", <<"no attribute replace">>)
       ELSE Return(r, [NoResponse EXCEPT
                !.status = 200,
                !.certificate_number = webmerge_params[r]["CERTIFICATE_Number"]])
    /\ UNCHANGED <<crm_system, system_id, site_id, cert_number, calls, log>>
    /\ UNCHANGED transformed

Step(r) ==
    \/ Fetch(r)
    \/ Validate(r)
    \/ GetCounter(r)
    \/ PatchCounter(r)
    \/ GroupDevices(r)
    \/ Assemble(r)
    \/ AddBrokerInfo(r)
    \/ Render(r)
    \/ Store(r)

\* Requests are handled concurrently: any request may take the next step.
Next == \E r \in Reqs : ReceiveRequest(r) \/ Step(r)

Spec == Init /\ [][Next]_vars

(***************************************************************************)
(* Requests handled one at a time (a single-threaded worker)               *)
(***************************************************************************)

SeqNext == \E r \in Reqs : ReceiveNextRequest(r) \/ Step(r)

SeqSpec == Init /\ [][SeqNext]_vars

(***************************************************************************)
(* The allocator called on its own: generate_certificate_number(site_id,   *)
(* system_id) by request 1, on system X, for every text of the counter     *)
(***************************************************************************)

AllocInit ==
    /\ \E props \in {EmptyDict} \cup {[certificate_counter |-> c] : c \in CounterTexts} :
           crm_system = [s \in Systems |-> IF s = "X" THEN props
                                           ELSE [certificate_counter |-> None]]
    /\ pc = [r \in Reqs |-> IF r = 1 THEN "allocate" ELSE "idle"]
    /\ system_id = [r \in Reqs |-> IF r = 1 THEN "X" ELSE ""]
    /\ \E site \in Sites : site_id = [r \in Reqs |-> IF r = 1 THEN site ELSE Empty]
    /\ hubspot_data = [r \in Reqs |-> NoData]
    /\ current_counter = [r \in Reqs |-> None]
    /\ new_counter = [r \in Reqs |-> 0]
    /\ cert_number = [r \in Reqs |-> None]
    /\ grouped_devices = [r \in Reqs |-> EmptyDict]
    /\ webmerge_params = [r \in Reqs |-> EmptyDict]
    /\ response = [r \in Reqs |-> NoResponse]
    /\ calls = [r \in Reqs |-> <<>>]
    /\ log = [r \in Reqs |-> <<>>]
    /\ transformed = NoCall

AllocNext == GetCounter(1) \/ PatchCounter(1)

AllocSpec == AllocInit /\ [][AllocNext]_vars

(***************************************************************************)
(* The classifier and the assembler on their own: request 1 is at step 4   *)
(* with any list of devices                                                *)
(***************************************************************************)

ClassifyInit ==
    /\ crm_system = [s \in Systems |-> [certificate_counter |-> <<"1">>]]
    /\ pc = [r \in Reqs |-> IF r = 1 THEN "group" ELSE "idle"]
    /\ system_id = [r \in Reqs |-> IF r = 1 THEN "X" ELSE ""]
    /\ site_id = [r \in Reqs |-> IF r = 1 THEN <<"7", "7">> ELSE Empty]
    /\ \E devices \in DeviceLists :
           hubspot_data = [r \in Reqs |->
               IF r = 1 THEN [fetch_hubspot_data(CompleteCrm) EXCEPT !.DEVICES = devices]
               ELSE NoData]
    /\ current_counter = [r \in Reqs |-> IF r = 1 THEN <<"0">> ELSE None]
    /\ new_counter = [r \in Reqs |-> IF r = 1 THEN 1 ELSE 0]
    /\ cert_number = [r \in Reqs |-> IF r = 1 THEN CertNumber(<<"7", "7">>, 1) ELSE None]
    /\ grouped_devices = [r \in Reqs |-> EmptyDict]
    /\ webmerge_params = [r \in Reqs |-> EmptyDict]
    /\ response = [r \in Reqs |-> NoResponse]
    /\ calls = [r \in Reqs |-> <<>>]
    /\ log = [r \in Reqs |-> <<>>]
    /\ transformed = NoCall

ClassifyNext == GroupDevices(1) \/ Assemble(1)

ClassifySpec == ClassifyInit /\ [][ClassifyNext]_vars

(***************************************************************************)
(* The validator on its own: request 1 is at step 2 with any bundle        *)
(***************************************************************************)

\* Site records: a failed read, and records whose address and postal code
\* are null, empty or set and whose city and state are null or set.
SiteRecords ==
    {EmptyDict}
    \cup {[SiteRecord EXCEPT !.address = a, !.city = c, !.state = p, !.zip = z] :
              a \in {None, Empty, <<"1", " ", "M", "a", "i", "n">>},
              c \in {None, <<"Y", "V", "R">>},
              p \in {None, <<"B", "C">>},
              z \in {None, Empty, <<"v", "6", "e">>}}

ContactRecords ==
    {EmptyDict}
    \cup {[firstname |-> f, lastname |-> l] :
              f \in {None, Empty, <<"A", "n", "n">>}, l \in {None, <<"L", "e", "e">>}}

\* Agreement and system records: a failed read, a record.
OtherRecords == {EmptyDict, [hs_object_id |-> <<"1">>, name |-> None]}

Bundles ==
    {[AGREEMENT |-> a, SYSTEM |-> a, SITE |-> s, CUSTOMER |-> c, DEVICES |-> d] :
        a \in OtherRecords, s \in SiteRecords, c \in ContactRecords,
        d \in {<<>>, <<FrontDoor>>}}

ValidateInit ==
    /\ crm_system = [s \in Systems |-> [certificate_counter |-> None]]
    /\ pc = [r \in Reqs |-> IF r = 1 THEN "validate" ELSE "idle"]
    /\ system_id = [r \in Reqs |-> IF r = 1 THEN "X" ELSE ""]
    /\ site_id = [r \in Reqs |-> IF r = 1 THEN <<"7", "7">> ELSE Empty]
    /\ \E bundle \in Bundles :
           hubspot_data = [r \in Reqs |-> IF r = 1 THEN bundle ELSE NoData]
    /\ current_counter = [r \in Reqs |-> None]
    /\ new_counter = [r \in Reqs |-> 0]
    /\ cert_number = [r \in Reqs |-> None]
    /\ grouped_devices = [r \in Reqs |-> EmptyDict]
    /\ webmerge_params = [r \in Reqs |-> EmptyDict]
    /\ response = [r \in Reqs |-> NoResponse]
    /\ calls = [r \in Reqs |-> <<>>]
    /\ log = [r \in Reqs |-> <<"Step 1">>]
    /\ transformed = NoCall

ValidateNext == Validate(1)

ValidateSpec == ValidateInit /\ [][ValidateNext]_vars

(***************************************************************************)
(* The fetcher on its own: request 1 is at step 1, the CRM answers each    *)
(* read with any status                                                    *)
(***************************************************************************)

\* A read answered with the record (200) or refused.
Answer(ok, properties) == IF ok THEN Ok(properties) ELSE NotFound

AnyCrmAnswers ==
    {[agreement    |-> Answer(a, CompleteCrm.agreement.properties),
      system       |-> Answer(s, CompleteCrm.system.properties),
      site         |-> Answer(t, SiteRecord),
      associations |-> [status |-> l, results |-> IF l = 200 /\ n THEN <<"c1">> ELSE <<>>],
      contact      |-> Answer(c, ContactRecord),
      devices      |-> [status |-> d, results |-> IF d = 200 THEN <<FrontDoor>> ELSE <<>>]] :
        a \in BOOLEAN, s \in BOOLEAN, t \in BOOLEAN, l \in {200, 404}, n \in BOOLEAN,
        c \in BOOLEAN, d \in {200, 400, 500}}

FetchInit ==
    /\ crm_system = [s \in Systems |-> [certificate_counter |-> None]]
    /\ pc = [r \in Reqs |-> IF r = 1 THEN "fetch" ELSE "idle"]
    /\ system_id = [r \in Reqs |-> IF r = 1 THEN "X" ELSE ""]
    /\ site_id = [r \in Reqs |-> IF r = 1 THEN <<"7", "7">> ELSE Empty]
    /\ hubspot_data = [r \in Reqs |-> NoData]
    /\ current_counter = [r \in Reqs |-> None]
    /\ new_counter = [r \in Reqs |-> 0]
    /\ cert_number = [r \in Reqs |-> None]
    /\ grouped_devices = [r \in Reqs |-> EmptyDict]
    /\ webmerge_params = [r \in Reqs |-> EmptyDict]
    /\ response = [r \in Reqs |-> NoResponse]
    /\ calls = [r \in Reqs |-> <<>>]
    /\ log = [r \in Reqs |-> <<>>]
    /\ transformed = NoCall

FetchNext == FetchFrom(1, AnyCrmAnswers) \/ Validate(1)

FetchSpec == FetchInit /\ [][FetchNext]_vars

(***************************************************************************)
(* The engine on its own: one call of generate_certificate_data for system *)
(* X, whose counter is unset, "0" or "4", and whose bundle has one device   *)
(***************************************************************************)

EngineCounters == {None, <<"0">>, <<"4">>}

\* Agreement records: one status property; two properties of one suffix;
\* a property that is null, a property of a later prefix and one whose name
\* goes on after the suffix.
StatusAgreements ==
    {[hs_object_id |-> <<"1">>, agreement_plan_communication_15746 |-> <<"Y", "e", "s">>],
     [hs_object_id |-> <<"1">>, agreement_plan_gateway_14380 |-> <<"A">>,
      agreement_plan_fire_14380 |-> <<"B">>],
     [hs_object_id |-> <<"1">>, agreement_plan_intrusion_14385 |-> None,
      agreement_plan_trespass_15753 |-> <<"2">>,
      agreement_plan_trespass_15753_quantity |-> <<"4">>]}

EngineAnswers ==
    {[CompleteCrm EXCEPT !.devices = [status |-> 200, results |-> <<d>>]] : d \in DeviceSet}
    \cup {[CompleteCrm EXCEPT !.agreement = Ok(a)] : a \in StatusAgreements}
    \cup {IncompleteCrm}

EngineInit ==
    /\ crm_system \in {[s \in Systems |-> [certificate_counter |->
                                               IF s = "X" THEN c ELSE None,
                                           name |-> <<"M", "a", "i", "n">>]] :
                           c \in EngineCounters}
    /\ pc = [r \in Reqs |-> IF r = 1 THEN "fetch" ELSE "idle"]
    /\ system_id = [r \in Reqs |-> IF r = 1 THEN "X" ELSE ""]
    /\ site_id \in {[r \in Reqs |-> IF r = 1 THEN site ELSE Empty] : site \in Sites}
    /\ hubspot_data = [r \in Reqs |-> NoData]
    /\ current_counter = [r \in Reqs |-> None]
    /\ new_counter = [r \in Reqs |-> 0]
    /\ cert_number = [r \in Reqs |-> None]
    /\ grouped_devices = [r \in Reqs |-> EmptyDict]
    /\ webmerge_params = [r \in Reqs |-> EmptyDict]
    /\ response = [r \in Reqs |-> NoResponse]
    /\ calls = [r \in Reqs |-> <<>>]
    /\ log = [r \in Reqs |-> <<>>]
    /\ transformed = NoCall

EngineNext ==
    \/ FetchFrom(1, EngineAnswers)
    \/ Validate(1)
    \/ GetCounter(1)
    \/ PatchCounter(1)
    \/ GroupDevices(1)
    \/ Assemble(1)

EngineSpec == EngineInit /\ [][EngineNext]_vars

(***************************************************************************)
(* The assembler on its own: every request has its bundle, its grouped     *)
(* devices and its number, and assembles at one of two times               *)
(***************************************************************************)

AssembleLists == {<<>>, <<FrontDoor, HallMotion>>, <<HallMotion, FrontDoor>>}

AssembleSites == {SiteRecord, [SiteRecord EXCEPT !.mas_site_name = <<"L", "a", "b">>]}

AssembleCounters == {1, 2}

AssembleInit ==
    /\ crm_system = [s \in Systems |-> [certificate_counter |-> <<"2">>]]
    /\ pc = [r \in Reqs |-> "assemble"]
    /\ system_id = [r \in Reqs |-> "X"]
    /\ site_id = [r \in Reqs |-> <<"7", "7">>]
    /\ hubspot_data \in [Reqs ->
           {[fetch_hubspot_data(CompleteCrm) EXCEPT !.SITE = site, !.DEVICES = devices] :
               site \in AssembleSites, devices \in AssembleLists}]
    /\ new_counter \in [Reqs -> AssembleCounters]
    /\ current_counter = [r \in Reqs |-> NatToStr(new_counter[r] - 1)]
    /\ cert_number = [r \in Reqs |-> CertNumber(<<"7", "7">>, new_counter[r])]
    /\ grouped_devices = [r \in Reqs |-> group_devices(hubspot_data[r].DEVICES)]
    /\ webmerge_params = [r \in Reqs |-> EmptyDict]
    /\ response = [r \in Reqs |-> NoResponse]
    /\ calls = [r \in Reqs |-> <<>>]
    /\ log = [r \in Reqs |-> <<"Step 1", "Step 2", "Validation passed", "Step 3",
                              "Certificate number", "Step 4">>]
    /\ transformed = NoCall

AssembleNext == \E r \in Reqs : AssembleAt(r, PstClocks)

AssembleSpec == AssembleInit /\ [][AssembleNext]_vars

(***************************************************************************)
(* The transformer on its own: transform_value(value, transform) called    *)
(* with any value and any kind, at any time of the clock                   *)
(***************************************************************************)

\* The recognized kinds, and one that is not.
RecognizedKinds ==
    {"NONE", "CONCAT_SPACE", "UPPER", "DATETIME_FORMAT", "TIMESTAMP_FORMAT", "DEVICE_COUNT",
     "EXTRACT_ITEM_NUMBER", "EXTRACT_NAME", "DEVICE_ARRAY", "COMM_PATH_LABEL",
     "COMM_PATH_PHRASE"}

Kinds == RecognizedKinds \cup {"TITLE"}

\* Communication-path codes of a system record, and a text.
PathCodes == {<<"0", "1">>, <<"0", "2">>, <<"0", "4">>, <<"0", "7">>}

\* The values: None, the empty str and list, texts, pairs of path codes and
\* other lists.
Values ==
    {NoneValue, StrValue(<<>>), ListValue(<<>>), IntValue(0),
     StrValue(<<"v", "6", "e", " ", "2", "e", "9">>), StrValue(<<"P", "l", "a", "n", " ", "A", " ", "[", "1", "2", "]", " ", "x">>), StrValue(<<"2", "0", "2", "4", "-", "0", "3", "-", "0", "5", "T", "1", "4", ":", "0", "7", ":", "0", "0", "Z">>),
     StrValue(<<"0", "1">>), StrValue(<<"G", "S", "M", " ", "R", "a", "d", "i", "o">>),
     ListValue(<<<<"A", "n", "n">>, None>>), ListValue(<<<<"0", "1">>>>), ListValue(<<None, None>>),
     ListValue(<<<<" ", " ">>, <<>>>>), ListValue(<<<<"B", "L", "I", "N", "K">>, <<"g", "s", "m", " ", "r", "a", "d", "i", "o">>>>),
     ListValue(<<None, <<"C", "e", "l", "l", "u", "l", "a", "r">>>>), ListValue(<<<<"p", "h", "o", "n", "e">>, <<"p", "o", "t", "s">>>>)}
    \cup {ListValue(<<a, b>>) : a \in PathCodes, b \in PathCodes}

\* The times of the clock.
Clocks ==
    {[year |-> 2026, month |-> 12, day |-> d, hour |-> h, minute |-> 5] :
        d \in 1..31, h \in {0, 15}}

\* The arguments of the call are any value and any kind, at any time.
TransformInit ==
    /\ crm_system = [s \in Systems |-> [certificate_counter |-> None]]
    /\ pc = [r \in Reqs |-> "idle"]
    /\ system_id = [r \in Reqs |-> ""]
    /\ site_id = [r \in Reqs |-> Empty]
    /\ hubspot_data = [r \in Reqs |-> NoData]
    /\ current_counter = [r \in Reqs |-> None]
    /\ new_counter = [r \in Reqs |-> 0]
    /\ cert_number = [r \in Reqs |-> None]
    /\ grouped_devices = [r \in Reqs |-> EmptyDict]
    /\ webmerge_params = [r \in Reqs |-> EmptyDict]
    /\ response = [r \in Reqs |-> NoResponse]
    /\ calls = [r \in Reqs |-> <<>>]
    /\ log = [r \in Reqs |-> <<>>]
    /\ \E value \in Values, transform \in Kinds, now \in Clocks :
        transformed = [value |-> value, transform |-> transform, now |-> now,
                       result |-> NoneValue, done |-> FALSE]

\* The call of transform_value.
Transform ==
    /\ transformed.transform # ""
    /\ ~transformed.done
    /\ transformed' =
        [transformed EXCEPT !.result = transform_value(transformed.value,
                                                       transformed.transform, transformed.now),
                            !.done = TRUE]
    /\ UNCHANGED <<crm_system, pc, system_id, site_id, hubspot_data, current_counter,
                   new_counter, cert_number, grouped_devices, webmerge_params, response,
                   calls, log>>

TransformSpec == TransformInit /\ [][Transform]_vars

(***************************************************************************)
(* Properties                                                              *)
(***************************************************************************)

\* The steps at which a request holds a counter value it has read, and those
\* after its counter write has succeeded.
AfterRead == {"update", "group", "assemble", "broker", "render", "store"}

AfterWrite == {"group", "assemble", "broker", "render", "store"}

\* The requests a request has issued, as a set of names.
Issued(r) == {calls[r][i].request : i \in 1..Len(calls[r])}

Elements(seq) == {seq[i] : i \in 1..Len(seq)}

IsPrefix(a, b) == Len(a) <= Len(b) /\ a = SubSeq(b, 1, Len(a))

\* The integer value of a counter text as the allocator's contract gives it:
\* 0 for an absent, null or non-numeric value, the integer part of a decimal
\* numeral otherwise.
IntegerValue(text) ==
    CASE text = None -> 0
      [] text = <<>> -> 0
      [] text = <<"n", "a">> -> 0
      [] text = <<"1", "2", "x">> -> 0
      [] text = <<"4", ".", "0">> -> 4
      [] text = <<"4", ".", "7">> -> 4
      [] text = <<" ", "7", " ">> -> 7
      [] OTHER -> DigitsToNat(text)

\* The stored counter of a system, None when the property is absent.
StoredCounter(s) == DictGet(crm_system[s], "certificate_counter", None)

\* A decimal numeral without padding.
IsPlainNumeral(text) ==
    /\ text # <<>>
    /\ AllDigits(text)
    /\ (Len(text) > 1 => text[1] # "0")

\* C1: two requests for the same system never hold the same counter value
\* read while both are in flight, never have been given the same certificate
\* number by the allocator, and never answer with the same certificate number.
C1_NoSharedCounterValue ==
    \A r, q \in Reqs :
        (r # q /\ system_id[r] # "" /\ system_id[r] = system_id[q]) =>
            /\ (pc[r] \in AfterRead /\ pc[q] \in AfterRead) =>
                   current_counter[r] # current_counter[q]
            /\ (cert_number[r] # None /\ cert_number[q] # None) =>
                   cert_number[r] # cert_number[q]
            /\ (response[r].certificate_number # None
                  /\ response[q].certificate_number # None) =>
                   response[r].certificate_number # response[q].certificate_number

\* C2: when validate_data reports not ok, the step that validates ends the
\* request with the 400 answer of a validation error whose message holds
\* every violated check (the postal-code message when the zip is missing), it
\* issues no request and leaves every counter as it is; a request answered
\* that way has issued neither the counter read nor the counter write.
C2_InvalidStep ==
    \A r \in Reqs :
        (pc[r] = "validate" /\ pc'[r] # "validate"
           /\ ~validate_data(hubspot_data[r]).is_valid) =>
            /\ pc'[r] = "done"
            /\ response'[r].status = 400
            /\ Head(response'[r].error) = "Validation failed: "
            /\ Elements(validate_data(hubspot_data[r]).errors)
                   \subseteq Elements(response'[r].error)
            /\ ~Truthy(DictGet(hubspot_data[r].SITE, "zip", None)) =>
                   "Site postal code is missing" \in Elements(response'[r].error)
            /\ crm_system' = crm_system
            /\ calls'[r] = calls[r]
            /\ cert_number'[r] = None

C2_NoAllocatorCall ==
    \A r \in Reqs :
        (response[r].status = 400 /\ response[r].error # <<>>
           /\ Head(response[r].error) = "Validation failed: ") =>
            /\ Issued(r) \cap {"GET counter", "PATCH counter"} = {}
            /\ "Step 3" \notin Elements(log[r])
            /\ cert_number[r] = None

C2_ValidationFailureSkipsAllocator == [][C2_InvalidStep]_vars /\ []C2_NoAllocatorCall

C2_Witness ==
    \E r \in Reqs :
        /\ response[r].status = 400
        /\ response[r].error # <<>>
        /\ Head(response[r].error) = "Validation failed: "
        /\ "Site postal code is missing" \in Elements(response[r].error)
        /\ "No devices found on system" \in Elements(response[r].error)

\* The progress lines of a complete run, in order.
StageOrder ==
    <<"Step 1", "Step 2", "Validation passed", "Step 3", "Certificate number",
      "Step 4", "Step 5", "READY">>

\* C3: the stages of a run start in the order fetch, validate, allocate,
\* classify, assemble; the counter write is issued only after validation has
\* passed, and a field map exists only after the counter write has succeeded.
C3_StagesInOrder ==
    \A r \in Reqs :
        /\ IsPrefix(log[r], StageOrder)
        /\ "PATCH counter" \in Issued(r) => "Validation passed" \in Elements(log[r])
        /\ "GET counter" \in Issued(r) => "POST device search" \in Issued(r)
        /\ ("Step 5" \in Elements(log[r]) \/ webmerge_params[r] # EmptyDict) =>
               \E i \in 1..Len(calls[r]) :
                   /\ calls[r][i].request = "PATCH counter"
                   /\ calls[r][i].status \in {200, 201}
        /\ grouped_devices[r] # EmptyDict => cert_number[r] # None

C3_Witness == \E r \in Reqs : log[r] = StageOrder /\ pc[r] = "render"

\* The counter part of a certificate number: what follows the site id and
\* the hyphen.
CounterPart(number, site) == SubSeq(number, Len(site) + 2, Len(number))

\* A certificate number made of the site id, a hyphen and n padded with
\* zeros to at least three digits.
IsNumberOf(number, site, n) ==
    /\ Len(number) >= Len(site) + 4
    /\ SubSeq(number, 1, Len(site)) = site
    /\ number[Len(site) + 1] = "-"
    /\ AllDigits(CounterPart(number, site))
    /\ DigitsToNat(CounterPart(number, site)) = n
    /\ (Len(CounterPart(number, site)) > 3 => CounterPart(number, site)[1] # "0")

\* C4: with requests handled one at a time, every successful allocation
\* raises the persisted counter of its system by exactly 1, nothing else
\* changes a counter, and no two allocations on one system with the same
\* site id give the same certificate number.
C4_AllocationStep ==
    /\ \A r \in Reqs :
        cert_number'[r] # cert_number[r] =>
            /\ IsPlainNumeral(crm_system'[system_id[r]].certificate_counter)
            /\ IntegerValue(crm_system'[system_id[r]].certificate_counter)
                   = IntegerValue(StoredCounter(system_id[r])) + 1
    /\ \A s \in Systems :
        crm_system'[s] # crm_system[s] =>
            \E r \in Reqs : system_id[r] = s /\ cert_number'[r] # cert_number[r]

C4_NoNumberTwice ==
    \A r, q \in Reqs :
        (r # q /\ cert_number[r] # None /\ cert_number[q] # None
           /\ system_id[r] = system_id[q] /\ site_id[r] = site_id[q]) =>
            cert_number[r] # cert_number[q]

C4_SequentialAllocationsIncrement == [][C4_AllocationStep]_vars /\ []C4_NoNumberTwice

C4_Witness ==
    \E r, q \in Reqs :
        /\ r # q
        /\ cert_number[r] # None /\ cert_number[q] # None
        /\ system_id[r] = system_id[q] /\ site_id[r] = site_id[q]
        /\ IntegerValue(StoredCounter(system_id[r])) = 6

\* C5: the allocator computes the new counter as the integer value of the
\* stored counter plus 1 (0 for an absent, null or non-numeric one); when it
\* succeeds its number is the site id, a hyphen and the new counter padded to
\* at least 3 digits, the new counter is what the same system record holds
\* and the other system record is untouched; counter "4" and site "9999"
\* give "9999-005" and persist 5.
C5_AllocatorResult ==
    /\ pc[1] = "update" => new_counter[1] = IntegerValue(StoredCounter("X")) + 1
    /\ pc[1] = "group" =>
        /\ new_counter[1] = IntegerValue(current_counter[1]) + 1
        /\ IsNumberOf(cert_number[1], site_id[1], new_counter[1])
        /\ IsPlainNumeral(StoredCounter("X"))
        /\ DigitsToNat(StoredCounter("X")) = new_counter[1]
        /\ crm_system["Y"] = [certificate_counter |-> None]
        /\ (current_counter[1] = <<"4">> /\ site_id[1] = <<"9", "9", "9", "9">>) =>
            /\ cert_number[1] = <<"9", "9", "9", "9", "-", "0", "0", "5">>
            /\ StoredCounter("X") = <<"5">>

C5_Witness ==
    /\ pc[1] = "group"
    /\ current_counter[1] = <<"4">>
    /\ cert_number[1] = <<"9", "9", "9", "9", "-", "0", "0", "5">>

\* C6: after its counter write has succeeded a request writes no counter
\* again, whatever step it takes and however it ends, and issues the write
\* at most once; the number of a request that failed after its allocation is
\* given to no other request for that system and site handled before or
\* after it.
C6_NoWriteAfterAllocation ==
    \A r \in Reqs :
        (pc[r] \in AfterWrite /\ pc'[r] # pc[r]) => crm_system' = crm_system

C6_NumberNotReused ==
    \A r \in Reqs :
        /\ Cardinality({i \in 1..Len(calls[r]) : calls[r][i].request = "PATCH counter"}) <= 1
        /\ (cert_number[r] # None /\ response[r].status = 500) =>
            /\ IntegerValue(StoredCounter(system_id[r]))
                   >= DigitsToNat(CounterPart(cert_number[r], site_id[r]))
            /\ \A q \in Reqs :
                (q # r /\ cert_number[q] # None /\ system_id[q] = system_id[r]
                   /\ site_id[q] = site_id[r]) =>
                    cert_number[q] # cert_number[r]

C6_CounterKeptAfterFailure == [][C6_NoWriteAfterAllocation]_vars /\ []C6_NumberNotReused

C6_Witness ==
    \E r, q \in Reqs :
        /\ r < q
        /\ cert_number[r] # None /\ response[r].status = 500
        /\ system_id[q] = system_id[r] /\ site_id[q] = site_id[r]
        /\ response[q].status = 200

\* The counter read of a request came back with a status other than 200, the
\* counter write with a status other than 200 and 201.
FailedRead(call) == call.request = "GET counter" /\ call.status # 200

FailedWrite(call) == call.request = "PATCH counter" /\ call.status \notin {200, 201}

\* C7: a counter read answered with a non-200 status, or a counter write
\* answered with a status other than 200/201, is the last request the run
\* issues: the run ends in an error without a certificate number, without
\* classifying devices and without a field map; after a failed read no write
\* is issued, and the step of the failed read leaves every counter as it was.
C7_AbortedRun ==
    \A r \in Reqs : \A i \in 1..Len(calls[r]) :
        (FailedRead(calls[r][i]) \/ FailedWrite(calls[r][i])) =>
            /\ i = Len(calls[r])
            /\ pc[r] = "done"
            /\ response[r].status = 500
            /\ response[r].certificate_number = None
            /\ cert_number[r] = None
            /\ Elements(log[r]) \cap {"Certificate number", "Step 4", "Step 5", "READY"} = {}
            /\ grouped_devices[r] = EmptyDict
            /\ webmerge_params[r] = EmptyDict
            /\ FailedRead(calls[r][i]) => "PATCH counter" \notin Issued(r)

C7_FailedReadStep ==
    \A r \in Reqs :
        (calls'[r] # calls[r] /\ FailedRead(calls'[r][Len(calls'[r])])) =>
            crm_system' = crm_system

C7_AllocatorFailureAborts == [][C7_FailedReadStep]_vars /\ []C7_AbortedRun

C7_Witness ==
    \E r, q \in Reqs :
        /\ calls[r] # <<>> /\ FailedRead(calls[r][Len(calls[r])])
        /\ calls[q] # <<>> /\ FailedWrite(calls[q][Len(calls[q])])
        /\ system_id[r] = system_id[q]

\* The counters a system record can start with.
InitialCounters(s) == IF s = "X" THEN InitCounters ELSE {None}

\* The only request for its system.
Alone(r) == system_id[r] # "" /\ \A q \in Reqs : q # r => system_id[q] # system_id[r]

\* C8: a counter changes only in the write step of a request for that very
\* system; and a request that is the only one for its system reads, persists
\* and returns what it would with no other request around (the initial
\* counter c is read, c+1 is persisted and is the counter part of the
\* number), however the steps of requests for other systems interleave.
C8_OwnSystemOnly ==
    \A s \in Systems :
        crm_system'[s] # crm_system[s] =>
            \E r \in Reqs :
                /\ system_id[r] = s
                /\ pc[r] = "update"
                /\ pc'[r] = "group"
                /\ \A t \in Systems \ {s} : crm_system'[t] = crm_system[t]

C8_AsIfAlone ==
    \A r \in Reqs :
        Alone(r) =>
            \E c \in InitialCounters(system_id[r]) :
                IF cert_number[r] = None
                THEN /\ StoredCounter(system_id[r]) = c
                     /\ pc[r] = "update" =>
                            /\ current_counter[r] = c
                            /\ new_counter[r] = IntegerValue(c) + 1
                ELSE /\ StoredCounter(system_id[r]) = NatToStr(IntegerValue(c) + 1)
                     /\ IsNumberOf(cert_number[r], site_id[r], IntegerValue(c) + 1)

C8_SystemsIndependent == [][C8_OwnSystemOnly]_vars /\ []C8_AsIfAlone

C8_Witness ==
    \E r, q \in Reqs :
        /\ system_id[r] = "X" /\ system_id[q] = "Y"
        /\ pc[r] = "update" /\ current_counter[r] = <<"4">>
        /\ pc[q] = "group" /\ StoredCounter("Y") = <<"1">>

\* C9: with requests handled one at a time, no two allocations carrying the
\* same site id give the same certificate number, whether they are for the
\* same system or for different systems of that site.
C9_UniquePerSite ==
    \A r, q \in Reqs :
        (r # q /\ site_id[r] = site_id[q]
           /\ cert_number[r] # None /\ cert_number[q] # None) =>
            cert_number[r] # cert_number[q]

\* A device is in the list of a category of a grouping.
InCategory(grouped, category, device) ==
    category \in DOMAIN grouped /\ device \in Elements(grouped[category])

\* C10: when group_devices has run, every device of the list whose subtype is
\* in the override table is in the category the table gives and in no other,
\* whatever its equipment type, description and sensor group are.
C10_SubtypeStep ==
    \A r \in Reqs :
        (pc[r] = "group" /\ pc'[r] # "group") =>
            \A i \in 1..Len(hubspot_data[r].DEVICES) :
                LET device == hubspot_data[r].DEVICES[i]
                IN  InSubtypeMap(EquipmentSubtype(device)) =>
                        \A c \in CategorySet :
                            InCategory(grouped_devices'[r], c, device)
                                <=> c = SubtypeCategory(EquipmentSubtype(device))

C10_SubtypeWins == [][C10_SubtypeStep]_vars

\* The description of a device, in lower case, contains "120v".
Is120v(device) ==
    /\ "alarm_com_description" \in DOMAIN device
    /\ device.alarm_com_description # None
    /\ Contains(Lower(device.alarm_com_description), <<"1", "2", "0", "v">>)

\* C11: when group_devices has run, a device of the list with equipment type
\* 5 or 53 whose description contains "120v" in any letter case is in no
\* category of the result.
C11_MainsStep ==
    \A r \in Reqs :
        (pc[r] = "group" /\ pc'[r] # "group") =>
            \A i \in 1..Len(hubspot_data[r].DEVICES) :
                LET device == hubspot_data[r].DEVICES[i]
                IN  (EquipmentType(device) \in {<<"5">>, <<"5", "3">>} /\ Is120v(device)) =>
                        \A c \in CategorySet : ~InCategory(grouped_devices'[r], c, device)

C11_MainsSmokeInNoCategory == [][C11_MainsStep]_vars

\* The 18 category keys.
FixedCategoryKeys ==
    {"Perimeter", "Motion", "Glassbreak", "ShockVibration", "PanicAlert", "Tamper",
     "NonRelaySmoke", "Sprinkler", "Heat", "CO", "Flood", "Sump", "120vSmoke", "Gas",
     "Humidity", "IntegratedEnvironmental", "Temperature", "Waterflow"}

\* C12: the result of group_devices has exactly the 18 category keys,
\* whatever the device list is; group_devices returns for the empty list,
\* and every key then maps to the empty list.
C12_ReturnsForEmptyList ==
    \A r \in Reqs :
        (pc[r] = "group" /\ pc'[r] # "group" /\ hubspot_data[r].DEVICES = <<>>) =>
            /\ pc'[r] = "assemble"
            /\ \A c \in FixedCategoryKeys : grouped_devices'[r][c] = <<>>

C12_KeysOfResult ==
    \A r \in Reqs :
        pc[r] \in {"assemble", "broker"} =>
            /\ DOMAIN grouped_devices[r] = FixedCategoryKeys
            /\ Cardinality(DOMAIN grouped_devices[r]) = 18

C12_EighteenCategoryKeys == [][C12_ReturnsForEmptyList]_vars /\ []C12_KeysOfResult

C12_Witness ==
    /\ pc[1] = "assemble"
    /\ Len(hubspot_data[1].DEVICES) = 2
    /\ grouped_devices[1]["Perimeter"] # <<>>
    /\ grouped_devices[1]["Gas"] = <<>>

\* A property that is absent, null or the empty text.
Blank(properties, key) ==
    key \notin DOMAIN properties \/ properties[key] = None \/ properties[key] = <<>>

\* The messages of the checks a bundle violates.
ViolatedChecks(data) ==
    {m \in {"Site address is missing", "Site city is missing", "Site state is missing",
            "Site postal code is missing", "Customer name is missing",
            "No devices found on system"} :
        \/ m = "Site address is missing" /\ Blank(data.SITE, "address")
        \/ m = "Site city is missing" /\ Blank(data.SITE, "city")
        \/ m = "Site state is missing" /\ Blank(data.SITE, "state")
        \/ m = "Site postal code is missing" /\ Blank(data.SITE, "zip")
        \/ m = "Customer name is missing"
               /\ Blank(data.CUSTOMER, "firstname") /\ Blank(data.CUSTOMER, "lastname")
        \/ m = "No devices found on system" /\ Len(data.DEVICES) = 0}

\* The messages of a validation error's text: every second piece after the
\* heading.
ReportedChecks(error) == [i \in 1..(Len(error) \div 2) |-> error[2 * i]]

\* C13: the validation step passes exactly when no check is violated (address,
\* city, state and zip of the site set, first or last name of the customer
\* set, at least one device); when it does not pass, its error holds exactly
\* one message for each violated check; nothing of the agreement or the
\* system record enters.
C13_ValidateStep ==
    \A r \in Reqs :
        (pc[r] = "validate" /\ pc'[r] # "validate") =>
            LET violated == ViolatedChecks(hubspot_data[r])
                reported == ReportedChecks(response'[r].error)
            IN  /\ pc'[r] = "allocate" <=> violated = {}
                /\ validate_data(hubspot_data[r]).is_valid <=> violated = {}
                /\ Len(validate_data(hubspot_data[r]).errors) = Cardinality(violated)
                /\ violated # {} =>
                    /\ pc'[r] = "done"
                    /\ response'[r].status = 400
                    /\ Len(response'[r].error) = 2 * Cardinality(violated)
                    /\ Elements(reported) = violated

C13_ValidationAccumulates == [][C13_ValidateStep]_vars

C13_Witness ==
    /\ pc[1] = "done"
    /\ Elements(ReportedChecks(response[1].error)) =
           {"Site address is missing", "Site postal code is missing",
            "Customer name is missing", "No devices found on system"}

\* The status a request of the fetch was answered with, 0 when the request
\* was not issued.
StatusOf(issued, request) ==
    IF \E i \in 1..Len(issued) : issued[i].request = request
    THEN issued[CHOOSE i \in 1..Len(issued) : issued[i].request = request].status
    ELSE 0

\* The bundle has its five keys, and each entity is the record the CRM holds
\* when its read (for the customer: the association lookup and the read of
\* the contact) was answered with 200, empty otherwise.
FetchedBundle(data, issued) ==
    /\ DOMAIN data = {"AGREEMENT", "SYSTEM", "SITE", "CUSTOMER", "DEVICES"}
    /\ data.AGREEMENT = IF StatusOf(issued, "GET agreement") = 200
                        THEN CompleteCrm.agreement.properties ELSE EmptyDict
    /\ data.SYSTEM = IF StatusOf(issued, "GET system") = 200
                     THEN CompleteCrm.system.properties ELSE EmptyDict
    /\ data.SITE = IF StatusOf(issued, "GET site") = 200 THEN SiteRecord ELSE EmptyDict
    /\ data.CUSTOMER = IF StatusOf(issued, "GET associations") = 200
                            /\ StatusOf(issued, "GET contact") = 200
                       THEN ContactRecord ELSE EmptyDict
    /\ data.DEVICES = IF StatusOf(issued, "POST device search") = 200
                      THEN <<FrontDoor>> ELSE <<>>

\* The requests of a fetch other than the read of the contact, in order.
RequestsOfFetch ==
    <<"GET agreement", "GET system", "GET site", "GET associations", "POST device search">>

\* The names of the requests issued, in order, without the one given.
RECURSIVE NamesWithout(_, _)
NamesWithout(issued, request) ==
    IF issued = <<>> THEN <<>>
    ELSE IF Head(issued).request = request THEN NamesWithout(Tail(issued), request)
    ELSE <<Head(issued).request>> \o NamesWithout(Tail(issued), request)

\* C14 as stated: whatever the statuses, a fetch issues every one of its six
\* requests, goes on to the validation, and returns the five keys with an
\* empty entry for each entity whose read failed and for that entity only.
C14_FetchStepAsStated ==
    \A r \in Reqs :
        (pc[r] = "fetch" /\ pc'[r] # "fetch") =>
            /\ pc'[r] = "validate"
            /\ FetchedBundle(hubspot_data'[r], calls'[r])
            /\ \A request \in Elements(RequestsOfFetch) \cup {"GET contact"} :
                   StatusOf(calls'[r], request) # 0

C14_EveryRequestIssued == [][C14_FetchStepAsStated]_vars

\* C14 as amended: the read of the contact is issued exactly when the
\* association lookup was answered with 200 and names a contact (the customer
\* is empty otherwise); every other request is issued whatever the statuses
\* of the requests before it.
C14_FetchStepAmended ==
    \A r \in Reqs :
        (pc[r] = "fetch" /\ pc'[r] # "fetch") =>
            /\ pc'[r] = "validate"
            /\ FetchedBundle(hubspot_data'[r], calls'[r])
            /\ NamesWithout(calls'[r], "GET contact") = RequestsOfFetch
            /\ StatusOf(calls'[r], "GET contact") # 0 =>
                   /\ StatusOf(calls'[r], "GET associations") = 200
                   /\ calls'[r][5].request = "GET contact"
                   /\ Len(calls'[r]) = 6
            /\ StatusOf(calls'[r], "GET associations") # 200 =>
                   StatusOf(calls'[r], "GET contact") = 0

C14_FailedReadsGiveEmptyEntities == [][C14_FetchStepAmended]_vars

C14_Witness ==
    /\ pc[1] = "validate"
    /\ StatusOf(calls[1], "GET agreement") = 404
    /\ StatusOf(calls[1], "GET site") = 404
    /\ StatusOf(calls[1], "GET contact") = 404
    /\ StatusOf(calls[1], "POST device search") = 500
    /\ hubspot_data[1].SYSTEM # EmptyDict

\* C15: transform_value(None, kind) is the empty str, whatever the kind is.
C15_NoneGivesEmptyText ==
    (transformed.done /\ transformed.value = NoneValue) =>
        transformed.result = StrValue(<<>>)

C15_Witness ==
    /\ transformed.done
    /\ transformed.value = NoneValue
    /\ transformed.transform = "TIMESTAMP_FORMAT"
    /\ transformed.result = StrValue(<<>>)


\* The kinds that do not read a str, and the kinds that turn an empty list
\* into the empty str.
KindsIgnoringText == {"TIMESTAMP_FORMAT", "DEVICE_COUNT", "DEVICE_ARRAY"}

KindsBlankingList == {"CONCAT_SPACE", "EXTRACT_ITEM_NUMBER", "COMM_PATH_LABEL", "COMM_PATH_PHRASE"}

\* C16 as stated: an absent value, be it None, the empty str or the empty
\* list, gives the empty str for every recognized kind.
C16_AbsentGivesEmptyText ==
    (/\ transformed.done
     /\ transformed.value \in {NoneValue, StrValue(<<>>), ListValue(<<>>)}
     /\ transformed.transform \in RecognizedKinds) =>
        transformed.result = StrValue(<<>>)

\* C16: only None returns before the kind is looked at.  None gives the empty
\* str for every kind; the empty str gives it for every recognized kind but
\* TIMESTAMP_FORMAT, DEVICE_COUNT and DEVICE_ARRAY; the empty list gives it for
\* CONCAT_SPACE, EXTRACT_ITEM_NUMBER, COMM_PATH_LABEL and COMM_PATH_PHRASE only.
C16_OnlyNoneShortCircuits ==
    transformed.done =>
        /\ transformed.value = NoneValue => transformed.result = StrValue(<<>>)
        /\ (transformed.value = StrValue(<<>>) /\ transformed.transform \in RecognizedKinds) =>
              (transformed.result = StrValue(<<>>)
                  <=> transformed.transform \notin KindsIgnoringText)
        /\ (transformed.value = ListValue(<<>>) /\ transformed.transform \in RecognizedKinds) =>
              (transformed.result = StrValue(<<>>)
                  <=> transformed.transform \in KindsBlankingList)

C16_Witness ==
    /\ transformed.done
    /\ transformed.value = ListValue(<<>>)
    /\ transformed.transform = "UPPER"
    /\ transformed.result = StrValue(<<"[", "]">>)


\* A path code is wireless when the label COMM_PATH_LABEL gives it names a
\* radio or cellular path.
WirelessCode(code) == IsWireless(Lower(CommPathLabel(StrValue(code))))

PhraseOfCodes(primary, secondary) ==
    IF WirelessCode(primary) /\ WirelessCode(secondary) THEN <<"R", "e", "d", "u", "n", "d", "a", "n", "t", " ", "W", "i", "r", "e", "l", "e", "s", "s">>
    ELSE IF WirelessCode(primary) \/ WirelessCode(secondary) THEN <<"G", "S", "M", " ", "O", "n", "l", "y">>
    ELSE <<>>

\* C17: COMM_PATH_PHRASE of two path codes is "Redundant Wireless" when both
\* are wireless, "GSM Only" when exactly one is, and "" when neither is; of
\* two blank paths or of fewer than two paths it is "".
C17_PhraseOfPathCodes ==
    (transformed.done /\ transformed.transform = "COMM_PATH_PHRASE"
        /\ transformed.value.type = "list") =>
        LET paths == transformed.value.items
        IN  /\ Len(paths) < 2 => transformed.result = StrValue(<<>>)
            /\ (Len(paths) = 2 /\ paths[1] \in PathCodes /\ paths[2] \in PathCodes) =>
                  transformed.result = StrValue(PhraseOfCodes(paths[1], paths[2]))
            /\ paths = <<None, None>> => transformed.result = StrValue(<<>>)


\* C18: the field map is write-once.  From the return of the engine until the
\* request to the rendering service is made, no step of the request adds,
\* removes or changes a key of the map.
C18_FieldMapWriteOnce ==
    [][\A r \in Reqs :
        pc[r] \in {"broker", "render"} => webmerge_params'[r] = webmerge_params[r]]_vars


\* The arguments of the call of assemble_certificate_fields a request makes.
AssembleArguments(r) == <<hubspot_data[r], grouped_devices[r], cert_number[r]>>

NameShown(device) ==
    IF "alarm_com_description" \in DOMAIN device
    THEN StripLeadingNumber(device.alarm_com_description)
    ELSE <<"U", "n", "k", "n", "o", "w", "n", " ", "D", "e", "v", "i", "c", "e">>

ZoneShown(device) ==
    IF "adc_deviceid" \in DOMAIN device /\ device.adc_deviceid \notin {None, Empty}
    THEN device.adc_deviceid
    ELSE IF "zone__" \in DOMAIN device /\ device.zone__ \notin {None, Empty}
         THEN device.zone__
         ELSE Empty

\* The sum of Count_{category} over the categories from the i-th on.
RECURSIVE SumOfCounts(_, _)
SumOfCounts(params, i) ==
    IF i > Len(Categories) THEN 0
    ELSE params["Count_" \o Categories[i]] + SumOfCounts(params, i + 1)

\* The devices of the bundle that the classifier put into a category.
ClassifiedDevices(devices) == {i \in 1..Len(devices) : Classify(devices[i]) \in CategorySet}

\* C20: for every category of the grouped devices the field map has
\* Zones_{category} with one {name, zone} entry per device of the category, in
\* the order of the category's list, and Count_{category} is the length of
\* that list; the counts sum to the number of classified devices.
C20_ZonesAndCounts ==
    \A r \in Reqs :
        pc[r] = "broker" =>
            /\ \A c \in DOMAIN grouped_devices[r] :
                LET devices == grouped_devices[r][c]
                    zones == webmerge_params[r]["Zones_" \o c]
                IN  /\ Len(zones) = Len(devices)
                    /\ \A i \in 1..Len(devices) :
                          /\ DOMAIN zones[i] = {"name", "zone"}
                          /\ zones[i].name = NameShown(devices[i])
                          /\ zones[i].zone = ZoneShown(devices[i])
                    /\ webmerge_params[r]["Count_" \o c] = Len(devices)
            /\ SumOfCounts(webmerge_params[r], 1)
                   = Cardinality(ClassifiedDevices(hubspot_data[r].DEVICES))

C20_Witness ==
    /\ pc[1] = "broker"
    /\ hubspot_data[1].DEVICES = <<HallMotion, MainsSmoke>>
    /\ webmerge_params[1].Count_Motion = 1
    /\ webmerge_params[1].Zones_Motion = <<[name |-> <<"U", "n", "k", "n", "o", "w", "n", " ", "D", "e", "v", "i", "c", "e">>, zone |-> <<"Z", "1">>]>>
    /\ SumOfCounts(webmerge_params[1], 1) = 1


\* C21: a bundle that passed validation, a counter read as "0" and one device
\* of equipment type 1 without subtype override: the field map that
\* generate_certificate_data returns has the number "{site_id}-001", the
\* device as the only entry of Zones_Perimeter, Count_Perimeter 1 and every
\* other count 0.
C21_OnePerimeterDevice ==
    \A r \in Reqs :
        (/\ pc[r] = "broker"
         /\ validate_data(hubspot_data[r]).is_valid
         /\ current_counter[r] = <<"0">>
         /\ Len(hubspot_data[r].DEVICES) = 1
         /\ EquipmentType(hubspot_data[r].DEVICES[1]) = <<"1">>
         /\ ~InSubtypeMap(EquipmentSubtype(hubspot_data[r].DEVICES[1]))) =>
            /\ webmerge_params[r].CERTIFICATE_Number = site_id[r] \o <<"-", "0", "0", "1">>
            /\ webmerge_params[r].Zones_Perimeter =
                   <<[name |-> NameShown(hubspot_data[r].DEVICES[1]),
                      zone |-> ZoneShown(hubspot_data[r].DEVICES[1])]>>
            /\ webmerge_params[r].Count_Perimeter = 1
            /\ \A c \in CategorySet \ {"Perimeter"} : webmerge_params[r]["Count_" \o c] = 0

C21_Witness ==
    /\ pc[1] = "broker"
    /\ current_counter[1] = <<"0">>
    /\ hubspot_data[1].DEVICES = <<FrontDoor>>
    /\ webmerge_params[1].CERTIFICATE_Number = <<"9", "9", "9", "9", "-", "0", "0", "1">>
    /\ webmerge_params[1].Zones_Perimeter = <<[name |-> <<"F", "r", "o", "n", "t", " ", "D", "o", "o", "r">>, zone |-> <<"7">>]>>
    /\ webmerge_params[1].Count_Perimeter = 1


\* C22: the engine never retries.  Among the requests one invocation has
\* issued no request occurs twice: the counter is read at most once and
\* written at most once, and a request that failed is not issued again.
C22_NoRequestIssuedTwice ==
    \A r \in Reqs :
        \A i, j \in 1..Len(calls[r]) :
            i < j => calls[r][i].request # calls[r][j].request

C22_Witness ==
    /\ pc[1] = "done"
    /\ calls[1] # <<>>
    /\ calls[1][Len(calls[1])] = Call("GET counter", 404)
    /\ Cardinality({i \in 1..Len(calls[1]) : calls[1][i].request = "GET counter"}) = 1
    /\ \E i \in 1..Len(calls[1]) : calls[1][i] = Call("GET contact", 200)


\* The description of a device, in lower case, contains the word.
DescriptionHas(device, word) ==
    /\ "alarm_com_description" \in DOMAIN device
    /\ device.alarm_com_description # None
    /\ Contains(Lower(device.alarm_com_description), word)

\* The sensor group of a device is 48.
InGroup48(device) ==
    /\ "alarm_com_sensor_group" \in DOMAIN device
    /\ device.alarm_com_sensor_group = <<"4", "8">>

\* The devices the exclusion rules name: a smoke detector (type 5 or 53) that
\* is a relay, a 120v unit or in sensor group 48, and a heat detector (type 8)
\* in sensor group 48, neither with a subtype of the override table.
NamedByExclusion(device) ==
    /\ ~InSubtypeMap(EquipmentSubtype(device))
    /\ \/ /\ EquipmentType(device) \in {<<"5">>, <<"5", "3">>}
          /\ \/ DescriptionHas(device, <<"r", "e", "l", "a", "y">>)
             \/ DescriptionHas(device, <<"1", "2", "0", "v">>)
             \/ InGroup48(device)
       \/ /\ EquipmentType(device) = <<"8">>
          /\ InGroup48(device)

C23_ExclusionStep ==
    \A r \in Reqs :
        (pc[r] = "group" /\ pc'[r] = "assemble") =>
            \A i \in 1..Len(hubspot_data[r].DEVICES) :
                NamedByExclusion(hubspot_data[r].DEVICES[i]) =>
                    \A c \in CategorySet :
                        ~InCategory(grouped_devices'[r], c, hubspot_data[r].DEVICES[i])

\* C23: when group_devices returns, a device the exclusion rules name is in
\* no category of the result.
C23_ExcludedInNoCategory == [][C23_ExclusionStep]_vars


\* The equipment type of a device is named by no type rule.
InNoTypeRule(device) ==
    \A i \in 1..Len(TypeRules) : EquipmentType(device) \notin TypeRules[i].types

C24_FallbackStep ==
    \A r \in Reqs :
        (pc[r] = "group" /\ pc'[r] = "assemble") =>
            \A i \in 1..Len(hubspot_data[r].DEVICES) :
                LET device == hubspot_data[r].DEVICES[i]
                IN  (~InSubtypeMap(EquipmentSubtype(device)) /\ InNoTypeRule(device)) =>
                        /\ InCategory(grouped_devices'[r], "Sprinkler", device)
                               <=> InGroup48(device)
                        /\ \A c \in CategorySet \ {"Sprinkler"} :
                               ~InCategory(grouped_devices'[r], c, device)

\* C24: when group_devices returns, a device whose subtype is not in the
\* override table and whose equipment type is in no type rule is in Sprinkler
\* exactly when its sensor group is 48, and in no other category.
C24_SensorGroupFallback == [][C24_FallbackStep]_vars

C24_Witness ==
    /\ pc[1] = "assemble"
    /\ hubspot_data[1].DEVICES = <<Keypad, AtticSprinkler>>
    /\ grouped_devices[1].Sprinkler = <<AtticSprinkler>>
    /\ \A c \in CategorySet : ~InCategory(grouped_devices[1], c, Keypad)


\* The key the lists are ordered by: the description without a leading number
\* and the white space after it, in lower case; the empty str for a record
\* without a description.
KeyShown(device) ==
    IF "alarm_com_description" \in DOMAIN device
    THEN Lower(StripLeadingNumber(device.alarm_com_description))
    ELSE Empty

\* The devices of a list that have the key, in the order of the list.
WithKey(devices, key) == SelectSeq(devices, LAMBDA d : KeyShown(d) = key)

C25_SortStep ==
    \A r \in Reqs :
        (pc[r] = "group" /\ pc'[r] = "assemble") =>
            \A c \in DOMAIN grouped_devices'[r] :
                LET sorted == grouped_devices'[r][c]
                    given == SelectSeq(hubspot_data[r].DEVICES,
                                       LAMBDA d : d \in Elements(sorted))
                IN  /\ \A i \in 1..(Len(sorted) - 1) :
                          ~StrLess(KeyShown(sorted[i + 1]), KeyShown(sorted[i]))
                    /\ \A i \in 1..Len(sorted) :
                          WithKey(sorted, KeyShown(sorted[i]))
                              = WithKey(given, KeyShown(sorted[i]))

PresentPrefixes(agreement, suffix) ==
    {j \in 1..Len(StatusPrefixes) : (StatusPrefixes[j] \o suffix) \in DOMAIN agreement}

\* C26: for every known suffix the field map has AGREEMENT_Status_{suffix}
\* exactly when a property prefix+suffix is in the agreement, with the value of
\* the property of the first such prefix; one key per suffix and no other
\* status key.
C26_FirstPresentPrefix ==
    \A r \in Reqs :
        pc[r] = "broker" =>
            LET agreement == hubspot_data[r].AGREEMENT
                params == webmerge_params[r]
                copied == {i \in 1..Len(status_fields) :
                               PresentPrefixes(agreement, status_fields[i]) # {}}
            IN  /\ \A i \in 1..Len(status_fields) :
                    LET present == PresentPrefixes(agreement, status_fields[i])
                        key == "AGREEMENT_Status_" \o status_fields[i]
                    IN  IF present = {} THEN key \notin DOMAIN params
                        ELSE /\ key \in DOMAIN params
                             /\ LET first == CHOOSE j \in present : \A m \in present : j <= m
                                IN  params[key] = agreement[StatusPrefixes[first]
                                                              \o status_fields[i]]
                /\ Cardinality(DOMAIN params)
                       = 5 + 2 * Cardinality(DOMAIN grouped_devices[r]) + Cardinality(copied)

C26_Witness ==
    /\ pc[1] = "broker"
    /\ "agreement_plan_fire_14380" \in DOMAIN hubspot_data[1].AGREEMENT
    /\ webmerge_params[1].AGREEMENT_Status_14380 = <<"A">>


\* The ordinal suffix of a day of the month: "th" for 11, 12 and 13, else "st",
\* "nd", "rd" for a last digit of 1, 2, 3, and "th" for every other day.
SuffixOfDay(day) ==
    IF day \in {11, 12, 13} THEN <<"t", "h">>
    ELSE IF day % 10 = 1 THEN <<"s", "t">>
    ELSE IF day % 10 = 2 THEN <<"n", "d">>
    ELSE IF day % 10 = 3 THEN <<"r", "d">>
    ELSE <<"t", "h">>

\* The text begins with the month, the day and the day's suffix.
BeginsWithDate(text, now) ==
    LET date == MonthNames[now.month] \o <<" ">> \o NatToStr(now.day)
                    \o SuffixOfDay(now.day) \o <<",", " ">>
    IN  Len(text) >= Len(date) /\ SubSeq(text, 1, Len(date)) = date

\* C27: on every day from 1 to 31 the timestamp of TIMESTAMP_FORMAT has the
\* day's ordinal suffix, and the timestamp the assembler computes for the
\* same time has the same one.
C27_OrdinalSuffix ==
    (/\ transformed.done
     /\ transformed.transform = "TIMESTAMP_FORMAT"
     /\ transformed.value # NoneValue) =>
        /\ transformed.result.type = "str"
        /\ BeginsWithDate(transformed.result.v, transformed.now)
        /\ BeginsWithDate(timestamp_str(transformed.now), transformed.now)

C27_Witness ==
    /\ transformed.done
    /\ transformed.transform = "TIMESTAMP_FORMAT"
    /\ transformed.now.day = 12
    /\ transformed.result = StrValue(<<"D", "e", "c", "e", "m", "b", "e", "r", " ", "1", "2", "t", "h", ",", " ", "2", "0", "2", "6", " ", "a", "t", " ", "3", ":", "0", "5", "p", "m">>)
    /\ timestamp_str(transformed.now) = <<"D", "e", "c", "e", "m", "b", "e", "r", " ", "1", "2", "t", "h", ",", " ", "2", "0", "2", "6", " ", "a", "t", " ", "3", ":", "0", "5", "p", "m">>


\* How often a device occurs in a list.
Occurrences(devices, device) == Cardinality({i \in 1..Len(devices) : devices[i] = device})

\* How often a device occurs in the lists of the categories from the i-th on,
\* and the sizes of these lists together.
RECURSIVE PlacedFrom(_, _, _)
PlacedFrom(grouped, device, i) ==
    IF i > Len(Categories) THEN 0
    ELSE Occurrences(grouped[Categories[i]], device) + PlacedFrom(grouped, device, i + 1)

RECURSIVE SizeFrom(_, _)
SizeFrom(grouped, i) ==
    IF i > Len(Categories) THEN 0
    ELSE Len(grouped[Categories[i]]) + SizeFrom(grouped, i + 1)

C28_PlacementStep ==
    \A r \in Reqs :
        (pc[r] = "group" /\ pc'[r] = "assemble") =>
            LET devices == hubspot_data[r].DEVICES
                grouped == grouped_devices'[r]
            IN  /\ \A c \in DOMAIN grouped : Elements(grouped[c]) \subseteq Elements(devices)
                /\ \A device \in Elements(devices) :
                       PlacedFrom(grouped, device, 1) <= Occurrences(devices, device)
                /\ SizeFrom(grouped, 1) <= Len(devices)

\* C28: group_devices puts each device of its list into at most one category
\* and at most once: every entry of a category list is a device of the list,
\* no device has more entries than it has places in the list, and the lists
\* together are no longer than the list given.
C28_AtMostOneCategory == [][C28_PlacementStep]_vars

C28_Witness ==
    /\ pc[1] = "assemble"
    /\ hubspot_data[1].DEVICES = <<SumpOnSmoke, Keypad>>
    /\ grouped_devices[1].Sump = <<SumpOnSmoke>>
    /\ SizeFrom(grouped_devices[1], 1) = 1


\* The writes of the counter an invocation has made.
CounterWrites(r) == {i \in 1..Len(calls[r]) : calls[r][i].request = "PATCH counter"}

C29_MutationStep ==
    /\ \A s \in Systems :
        crm_system'[s] # crm_system[s] =>
            /\ \E r \in Reqs : system_id[r] = s /\ pc[r] = "update" /\ pc'[r] = "group"
            /\ DOMAIN crm_system'[s] = DOMAIN crm_system[s] \cup {"certificate_counter"}
            /\ \A k \in DOMAIN crm_system[s] \ {"certificate_counter"} :
                   crm_system'[s][k] = crm_system[s][k]
            /\ \A t \in Systems \ {s} : crm_system'[t] = crm_system[t]
    /\ \A r \in Reqs :
        (pc[r] \in {"fetch", "validate", "group", "assemble"} /\ pc'[r] # pc[r]) =>
            crm_system' = crm_system

\* C29: over a run of generate_certificate_data the CRM changes only by the
\* allocator's write, made at most once, of certificate_counter on the system
\* of the request: the fetch, the validation, the grouping and the assembly
\* leave every record as it is, and no other property and no other system
\* record is written.
C29_OnlyTheCounterIsWritten ==
    /\ [][C29_MutationStep]_vars
    /\ [](\A r \in Reqs : Cardinality(CounterWrites(r)) <= 1)

C29_Witness ==
    /\ pc[1] = "broker"
    /\ crm_system["X"] = [certificate_counter |-> <<"5">>, name |-> <<"M", "a", "i", "n">>]
    /\ crm_system["Y"] = [certificate_counter |-> None, name |-> <<"M", "a", "i", "n">>]
    /\ Cardinality(CounterWrites(1)) = 1


\* The categories no subtype, no type rule and no fallback names.
UntargetedCategories ==
    {"120vSmoke", "Gas", "Humidity", "IntegratedEnvironmental", "Temperature", "Waterflow"}

\* C30: in every grouping that group_devices returns the lists of 120vSmoke,
\* Gas, Humidity, IntegratedEnvironmental, Temperature and Waterflow are
\* empty, and in the field map assembled from it their counts are 0.
C30_UntargetedCategoriesEmpty ==
    \A r \in Reqs :
        /\ pc[r] \in {"assemble", "broker"} =>
              \A c \in UntargetedCategories : grouped_devices[r][c] = <<>>
        /\ pc[r] = "broker" =>
              \A c \in UntargetedCategories :
                  /\ webmerge_params[r]["Count_" \o c] = 0
                  /\ webmerge_params[r]["Zones_" \o c] = <<>>

C30_Witness ==
    /\ pc[1] = "broker"
    /\ hubspot_data[1].DEVICES = <<MainsSmoke, AtticSprinkler>>
    /\ webmerge_params[1].Count_Sprinkler = 1
    /\ \A c \in UntargetedCategories : webmerge_params[1]["Count_" \o c] = 0

====
